---- MODULE Spec2Model ----
(***************************************************************************)
(* Workload allocation and gap analysis engine of the Teacher Information  *)
(* System: _build_reporting_context and                                    *)
(* _build_report_class_allocation_data of main.py as a state machine.      *)
(* One run of the engine is one behaviour: the inputs are drawn in Init    *)
(* and never written afterwards; every loop iteration that grants hours is *)
(* one step.  SpecOrder alone lets the caller run the engine a second time *)
(* on the same records in another order.                                   *)
(***************************************************************************)
EXTENDS Integers, Sequences, FiniteSets, TLC

----------------------------------------------------------------------------
(* Module-level configuration of main.py *)

REPORT_STANDARD_MAX_HOURS == 24

CROSS_SUBJECT_SUPPORT_RULES ==
    [k \in {"english", "arabic", "arbic"} |->
        IF k = "english" THEN {"social studies english"}
        ELSE {"social studies ksa"}]

CROSS_SUBJECT_HIRING_ANCHOR_PRIORITY ==
    <<"english", "arabic", "arbic", "social studies english", "social studies ksa">>

----------------------------------------------------------------------------
(* Bounds of the model *)

MaxSubjects == 3
MaxSections == 2
MaxTeachers == 2
MaxDemandSections == 3
MaxDemandTeachers == 1
MinGapSubjects == 9
MaxGapTeachers == 1
MaxOddSections == 2
MaxOddTeachers == 1

----------------------------------------------------------------------------
(* Generic helpers *)

Min(a, b) == IF a <= b THEN a ELSE b
Max(a, b) == IF a >= b THEN a ELSE b

Range(s) == {s[i] : i \in DOMAIN s}

\* variant: the quotient is rounded down
FloorDiv(a, b) == a \div b

\* math.ceil(a / b) for a >= 0, b > 0
CeilDiv(a, b) == (a + b - 1) \div b

RECURSIVE SumSet(_, _)
\* sum(f[x] for x in S)
SumSet(f, S) ==
    IF S = {} THEN 0
    ELSE LET x == CHOOSE y \in S : TRUE IN f[x] + SumSet(f, S \ {x})

RECURSIVE SumSeq(_)
SumSeq(s) == IF s = <<>> THEN 0 ELSE s[1] + SumSeq(Tail(s))

\* dict.get(key, 0)
Get(d, k) == IF k \in DOMAIN d THEN d[k] ELSE 0

\* sum(d.values())
SumValues(d) == SumSet(d, DOMAIN d)

\* tuple comparison of Python: lexicographic on equal-length integer tuples
RECURSIVE LexLess(_, _)
LexLess(a, b) ==
    IF a = <<>> \/ b = <<>> THEN FALSE
    ELSE IF a[1] < b[1] THEN TRUE
    ELSE IF a[1] > b[1] THEN FALSE
    ELSE LexLess(Tail(a), Tail(b))

\* sorted(s, key=...) / list.sort(key=...): stable, keys[i] is the key of s[i]
SortByKeys(s, keys) ==
    LET n == Len(s)
        Pos(i) == 1 + Cardinality({j \in 1..n :
                        LexLess(keys[j], keys[i]) \/ (keys[j] = keys[i] /\ j < i)})
    IN [p \in 1..n |-> s[CHOOSE i \in 1..n : Pos(i) = p]]

\* the elements of cat at the indices S, in list order
SelectIdx(cat, S) ==
    LET Kth(k) == CHOOSE i \in S : Cardinality({j \in S : j < i}) = k - 1
    IN [k \in 1..Cardinality(S) |-> cat[Kth(k)]]

SubLists(cat, max) ==
    {SelectIdx(cat, S) : S \in {T \in SUBSET (1..Len(cat)) : Cardinality(T) <= max}}

----------------------------------------------------------------------------
(* Strings.  TLC has no string operations, so str.strip/upper/lower/split  *)
(* and the order of str are tabulated for the strings of the input         *)
(* catalogues below.                                                       *)

\* str(n) for the grades used
DecimalStr(n) ==
    <<"0", "1", "2", "3", "4", "5", "6", "7", "8", "9", "10", "11", "12", "13">>[n + 1]

\* int(text), -1 standing for ValueError
ParseInt(text) ==
    IF \E n \in 0..13 : DecimalStr(n) = text
    THEN CHOOSE n \in 0..13 : DecimalStr(n) = text
    ELSE -1

\* str(value).strip().upper()
StripUpper(text) ==
    CASE text = " kg" -> "KG"
      [] text = "b " -> "B"
      [] text = " ara5" -> "ARA5"
      [] text = " che5" -> "CHE5"
      [] OTHER -> text

\* str(value or "").strip()
Strip(text) ==
    CASE text = " Badr" -> "Badr"
      [] OTHER -> text

\* str(value or "").strip().lower()
StripLower(text) ==
    CASE text = "Current" -> "current"
      [] text = "New" -> "new"
      [] text = " NEW " -> "new"
      [] text = "Planned" -> "planned"
      [] OTHER -> text

\* " ".join(str(value or "").split())
CollapseWhitespace(text) ==
    CASE text = "Social  Studies KSA" -> "Social Studies KSA"
      [] text = " " -> ""
      [] OTHER -> text

\* str.lower()
Lower(text) ==
    CASE text = "English" -> "english"
      [] text = "Social Studies English" -> "social studies english"
      [] text = "Arabic" -> "arabic"
      [] text = "Arbic" -> "arbic"
      [] text = "Social Studies KSA" -> "social studies ksa"
      [] text = "Math" -> "math"
      [] text = "Science" -> "science"
      [] text = "SCIENCE" -> "science"
      [] text = "ENG5" -> "eng5"
      [] text = "Physics" -> "physics"
      [] text = "Chemistry" -> "chemistry"
      [] text = "Biology" -> "biology"
      [] text = "Art" -> "art"
      [] text = "SPORT" -> "sport"
      [] OTHER -> text

\* str.upper()
Upper(text) ==
    CASE text = "eng5" -> "ENG5"
      [] OTHER -> text

\* every str the engine compares with < , in the order of Python's str
StringOrder ==
    <<"", "A", "ARA5", "ARB6", "ART6", "Adam", "Arabic", "Arbic", "Art", "B", "BIO6",
      "Badr", "Biology", "CHE5", "Cara", "Chemistry", "Dana", "ENG5", "Eman",
      "English", "Fadi", "G5-A", "G5-B", "G6-A", "G6-B", "MAT5", "Math", "PHY5",
      "PHY6", "Physics", "SCI0", "SCI13", "SCI5", "SCI6", "SCIENCE", "SPO5", "SPORT",
      "SSE5", "SSK5", "Science", "Social Studies English", "Social Studies KSA", "T1",
      "T2", "T3", "T4", "T5", "T7", "T8", "T9", "Teacher #5", "arabic", "arbic", "art",
      "biology", "chemistry", "english", "math", "physics", "science",
      "social studies english", "social studies ksa", "sport">>

StrRank(text) == CHOOSE i \in 1..Len(StringOrder) : StringOrder[i] = text

----------------------------------------------------------------------------
(* Normalisation functions of main.py *)

GradeLabels ==
    {"KG", "1", "2", "3", "4", "5", "6", "7", "8", "9", "10", "11", "12"}

_normalize_grade_label(value) ==
    LET cleaned == StripUpper(value)
        parsed == ParseInt(cleaned)
    IN IF cleaned \in {"0", "K", "KG", "KINDERGARTEN"} THEN "KG"
       ELSE IF parsed = -1 THEN ""
       ELSE IF 1 <= parsed /\ parsed <= 12 THEN DecimalStr(parsed)
       ELSE ""

_grade_sort_key(grade_label) ==
    IF grade_label = "KG" THEN 0
    ELSE IF ParseInt(grade_label) = -1 THEN 99
    ELSE ParseInt(grade_label)

\* <<subject_key, subject_label>>
_build_subject_identity(subject_name, fallback_code) ==
    LET cleaned_name == CollapseWhitespace(subject_name)
        cleaned_code == Upper(CollapseWhitespace(fallback_code))
    IN IF cleaned_name # "" THEN <<Lower(cleaned_name), cleaned_name>>
       ELSE IF cleaned_code # "" THEN <<Lower(cleaned_code), cleaned_code>>
       ELSE <<"", "">>

_normalize_subject_family_key(value) == Lower(CollapseWhitespace(value))

----------------------------------------------------------------------------
(* Input catalogues: the records the input lists are drawn from *)

SubjectCatalog ==
    << [subject_code |-> "ENG5", subject_name |-> "English", weekly_hours |-> 13, grade |-> 5],
       [subject_code |-> "SSE5", subject_name |-> "Social Studies English", weekly_hours |-> 12, grade |-> 5],
       [subject_code |-> "ARA5", subject_name |-> "Arabic", weekly_hours |-> 5, grade |-> 5],
       [subject_code |-> "ARB6", subject_name |-> "Arbic", weekly_hours |-> 21, grade |-> 6],
       [subject_code |-> "SSK5", subject_name |-> "Social  Studies KSA", weekly_hours |-> 4, grade |-> 5],
       [subject_code |-> "MAT5", subject_name |-> "Math", weekly_hours |-> 20, grade |-> 5] >>

SectionCatalog ==
    << [grade_level |-> "5", section_name |-> "A", class_status |-> "Current"],
       [grade_level |-> "5", section_name |-> "b ", class_status |-> " NEW "],
       [grade_level |-> "6", section_name |-> "A", class_status |-> "Current"] >>

TeacherCatalog ==
    << [id |-> 1, teacher_id |-> "T1", first_name |-> "Adam", middle_name |-> "", last_name |-> "",
        subject_code |-> "", max_hours |-> 24, extra_hours_allowed |-> FALSE],
       [id |-> 2, teacher_id |-> "T2", first_name |-> " Badr", middle_name |-> "", last_name |-> "",
        subject_code |-> "", max_hours |-> 30, extra_hours_allowed |-> TRUE],
       [id |-> 3, teacher_id |-> "T3", first_name |-> "Adam", middle_name |-> "", last_name |-> "",
        subject_code |-> "", max_hours |-> 24, extra_hours_allowed |-> FALSE],
       [id |-> 4, teacher_id |-> "T4", first_name |-> "Cara", middle_name |-> "", last_name |-> "",
        subject_code |-> " ara5", max_hours |-> 24, extra_hours_allowed |-> FALSE],
       [id |-> 5, teacher_id |-> "T5", first_name |-> "", middle_name |-> "", last_name |-> "",
        subject_code |-> "", max_hours |-> 24, extra_hours_allowed |-> FALSE] >>

\* catalogues of the demand-builder runs: one subject identity on two grades
\* (the first record names it), a record without hours, a record of grade 13
DemandSubjectCatalog ==
    << [subject_code |-> "SCI5", subject_name |-> "Science", weekly_hours |-> 5, grade |-> 5],
       [subject_code |-> "SCI6", subject_name |-> "SCIENCE", weekly_hours |-> 3, grade |-> 6],
       [subject_code |-> "SCI0", subject_name |-> "Science", weekly_hours |-> 0, grade |-> 5],
       [subject_code |-> "SCI13", subject_name |-> "Science", weekly_hours |-> 3, grade |-> 13],
       [subject_code |-> "ENG5", subject_name |-> "English", weekly_hours |-> 13, grade |-> 5],
       [subject_code |-> "SSE5", subject_name |-> "Social Studies English", weekly_hours |-> 12, grade |-> 5] >>

DemandSectionCatalog ==
    << [grade_level |-> "5", section_name |-> "A", class_status |-> "Current"],
       [grade_level |-> "5", section_name |-> "b ", class_status |-> " NEW "],
       [grade_level |-> "6", section_name |-> "A", class_status |-> "Current"],
       [grade_level |-> "6", section_name |-> "B", class_status |-> "New"],
       [grade_level |-> "13", section_name |-> "A", class_status |-> "Current"] >>

DemandTeacherCatalog == SubSeq(TeacherCatalog, 1, 3)

\* catalogues of the runs on teachers with several subject links: physics on two
\* grades, three subjects of equal weekly hours, a teacher with a legacy code and a
\* record of another subject, a teacher with a legacy code only
LinkSubjectCatalog ==
    << [subject_code |-> "PHY5", subject_name |-> "Physics", weekly_hours |-> 4, grade |-> 5],
       [subject_code |-> "CHE5", subject_name |-> "Chemistry", weekly_hours |-> 4, grade |-> 5],
       [subject_code |-> "BIO6", subject_name |-> "Biology", weekly_hours |-> 4, grade |-> 6],
       [subject_code |-> "PHY6", subject_name |-> "Physics", weekly_hours |-> 2, grade |-> 6],
       [subject_code |-> "ENG5", subject_name |-> "English", weekly_hours |-> 13, grade |-> 5],
       [subject_code |-> "SSE5", subject_name |-> "Social Studies English", weekly_hours |-> 12, grade |-> 5] >>

LinkTeacherCatalog ==
    << [id |-> 7, teacher_id |-> "T7", first_name |-> "Dana", middle_name |-> "", last_name |-> "",
        subject_code |-> "", max_hours |-> 24, extra_hours_allowed |-> FALSE],
       [id |-> 8, teacher_id |-> "T8", first_name |-> "Eman", middle_name |-> "", last_name |-> "",
        subject_code |-> "CHE5", max_hours |-> 24, extra_hours_allowed |-> FALSE],
       [id |-> 9, teacher_id |-> "T9", first_name |-> "Fadi", middle_name |-> "", last_name |-> "",
        subject_code |-> " che5", max_hours |-> 24, extra_hours_allowed |-> FALSE],
       TeacherCatalog[1] >>

\* catalogue of the runs on long subject lists: ten subject identities, so that more
\* than eight of them can lack hours
GapSubjectCatalog ==
    << SubjectCatalog[1], SubjectCatalog[2], SubjectCatalog[3], SubjectCatalog[4],
       SubjectCatalog[6], DemandSubjectCatalog[1], LinkSubjectCatalog[1],
       LinkSubjectCatalog[2], LinkSubjectCatalog[3],
       [subject_code |-> "ART6", subject_name |-> "Art", weekly_hours |-> 4, grade |-> 6] >>

\* catalogue of the runs on irregular section lists: a grade/section pair listed
\* twice, a section without a name, a section whose status is neither Current nor New
OddSectionCatalog ==
    << SectionCatalog[1],
       [grade_level |-> "5", section_name |-> "A", class_status |-> "New"],
       [grade_level |-> "5", section_name |-> "", class_status |-> "Current"],
       [grade_level |-> "5", section_name |-> "B", class_status |-> "Planned"] >>

\* catalogues of the runs on permuted input lists: one identity written "Science" on
\* grade 5 and "SCIENCE" on grade 6, and a subject whose name sorts between the two
OrderSubjectCatalog ==
    << DemandSubjectCatalog[1], DemandSubjectCatalog[2],
       [subject_code |-> "SPO5", subject_name |-> "SPORT", weekly_hours |-> 8, grade |-> 5],
       SubjectCatalog[1] >>

OrderTeacherCatalog == << LinkTeacherCatalog[1], TeacherCatalog[1] >>

\* the sublists of cat of at least min elements
LongSubLists(cat, min) ==
    {SelectIdx(cat, S) : S \in {T \in SUBSET (1..Len(cat)) : Cardinality(T) >= min}}

\* the rows of models.TeacherSubjectAllocation
AllocationTable ==
    << [teacher_id |-> 1, subject_code |-> "ENG5"],
       [teacher_id |-> 2, subject_code |-> "MAT5"],
       [teacher_id |-> 2, subject_code |-> "SCI5"],
       [teacher_id |-> 3, subject_code |-> "SSE5"],
       [teacher_id |-> 5, subject_code |-> "MAT5"],
       [teacher_id |-> 6, subject_code |-> "ENG5"],
       [teacher_id |-> 7, subject_code |-> "PHY5"],
       [teacher_id |-> 7, subject_code |-> "CHE5"],
       [teacher_id |-> 7, subject_code |-> "BIO6"],
       [teacher_id |-> 7, subject_code |-> "PHY6"],
       [teacher_id |-> 8, subject_code |-> "BIO6"],
       [teacher_id |-> 7, subject_code |-> "SCI5"],
       [teacher_id |-> 7, subject_code |-> "SCI6"],
       [teacher_id |-> 7, subject_code |-> "SPO5"] >>

----------------------------------------------------------------------------
(* State *)

VARIABLES
    subjects,                 \* input: list of Subject records
    planning_sections,        \* input: list of PlanningSection records
    teachers,                 \* input: list of Teacher records
    db_allocations,           \* input: the TeacherSubjectAllocation table behind db
    pc,                       \* position of the run
    sections_by_grade,
    current_sections_by_grade,
    new_sections_by_grade,
    subject_demand_map,
    required_by_grade,        \* required_hours_by_grade and its current / new companions
    teacher_profiles,
    remaining_hours_by_subject,
    allocation_sequence,      \* indices of teacher_profiles in processing order
    turn,                     \* position of the for loop over allocation_sequence
    remaining_capacity,       \* local of the current teacher's turn
    allocation_breakdown,     \* local of the current teacher's turn
    visited_rule_subjects,
    pooled_subject_keys,
    subject_additional_teachers_map,
    subject_additional_teachers_note_map,
    total_additional_teachers_needed,
    reporting_context,        \* the value _build_reporting_context returns
    demand_items_by_subject,
    sorted_profiles,          \* indices of reporting_context.teacher_profiles
    profile_turn,             \* position of the for loop over sorted_profiles
    subject_turn,             \* position of the for loop over ordered_subject_keys
    subject_hours_quota,      \* local of the loop over ordered_subject_keys
    class_allocations,        \* local of the current profile
    teacher_matrix_rows,
    assignment_rows,
    class_allocation_data,    \* the value _build_report_class_allocation_data returns
    earlier_run               \* the caller's record of an earlier run of the engine

inputVars == <<subjects, planning_sections, teachers, db_allocations>>
demandVars == <<sections_by_grade, current_sections_by_grade, new_sections_by_grade,
                subject_demand_map, required_by_grade>>
allocVars == <<teacher_profiles, remaining_hours_by_subject, allocation_sequence, turn,
               remaining_capacity, allocation_breakdown>>
poolVars == <<visited_rule_subjects, pooled_subject_keys, subject_additional_teachers_map,
              subject_additional_teachers_note_map, total_additional_teachers_needed>>
classVars == <<demand_items_by_subject, sorted_profiles, profile_turn, subject_turn,
               subject_hours_quota, class_allocations, teacher_matrix_rows, assignment_rows,
               class_allocation_data>>
vars == <<inputVars, pc, demandVars, allocVars, poolVars, reporting_context, classVars,
          earlier_run>>

EmptyDict == [k \in {} |-> 0]
ZeroByGrade == [g \in GradeLabels |-> 0]

\* d[k] = v
Put(d, k, v) == [x \in DOMAIN d \cup {k} |-> IF x = k THEN v ELSE d[x]]

\* the list of a set, sorted by a key that is total on the set
SortedSet(S, Key(_)) ==
    LET Pos(x) == 1 + Cardinality({y \in S : LexLess(Key(y), Key(x))})
    IN [p \in 1..Cardinality(S) |-> CHOOSE x \in S : Pos(x) = p]

\* before _build_reporting_context returns there is no context
NoContext ==
    [summary |-> EmptyDict, subject_rows |-> <<>>, gap_rows |-> <<>>, teacher_rows |-> <<>>,
     grade_rows |-> <<>>, teacher_profiles |-> <<>>]

NoClassData ==
    [class_rows |-> <<>>, teacher_matrix_rows |-> <<>>, assignment_rows |-> <<>>,
     unassigned_rows |-> <<>>]

\* the engine has not run before
NoRun == [ran |-> FALSE]

\* the state at the entry of _build_reporting_context
InitOf(subject_lists, section_lists, teacher_lists) ==
    /\ subjects \in subject_lists
    /\ planning_sections \in section_lists
    /\ teachers \in teacher_lists
    /\ db_allocations = AllocationTable
    /\ pc = "demand"
    /\ sections_by_grade = ZeroByGrade
    /\ current_sections_by_grade = ZeroByGrade
    /\ new_sections_by_grade = ZeroByGrade
    /\ subject_demand_map = EmptyDict
    /\ required_by_grade = [total |-> ZeroByGrade, current |-> ZeroByGrade, new |-> ZeroByGrade]
    /\ teacher_profiles = <<>>
    /\ remaining_hours_by_subject = EmptyDict
    /\ allocation_sequence = <<>>
    /\ turn = 1
    /\ remaining_capacity = REPORT_STANDARD_MAX_HOURS
    /\ allocation_breakdown = EmptyDict
    /\ visited_rule_subjects = {}
    /\ pooled_subject_keys = {}
    /\ subject_additional_teachers_map = EmptyDict
    /\ subject_additional_teachers_note_map = EmptyDict
    /\ total_additional_teachers_needed = 0
    /\ reporting_context = NoContext
    /\ demand_items_by_subject = EmptyDict
    /\ sorted_profiles = <<>>
    /\ profile_turn = 1
    /\ subject_turn = 1
    /\ subject_hours_quota = 0
    /\ class_allocations = EmptyDict
    /\ teacher_matrix_rows = <<>>
    /\ assignment_rows = <<>>
    /\ class_allocation_data = NoClassData
    /\ earlier_run = NoRun

----------------------------------------------------------------------------
(* Demand Builder: main.py 199-279 *)

\* the loop over planning_sections; counts[g] stands for dict.get(g, 0)
RECURSIVE CountSections(_, _)
CountSections(sections, statuses) ==
    IF sections = <<>> THEN ZeroByGrade
    ELSE LET rest == CountSections(Tail(sections), statuses)
             section == Head(sections)
             grade_label == _normalize_grade_label(section.grade_level)
             status == StripLower(section.class_status)
         IN IF grade_label = "" THEN rest
            ELSE IF statuses = {} \/ status \in statuses
                 THEN [rest EXCEPT ![grade_label] = @ + 1]
                 ELSE rest

SectionsByGrade(sections) == CountSections(sections, {})
CurrentSectionsByGrade(sections) == CountSections(sections, {"current"})
NewSectionsByGrade(sections) == CountSections(sections, {"new"})

\* variant: a later record of an identity replaces the hours of the earlier ones
AddSubjectDemandOverwriting(acc, subject, sbg, csbg, nsbg) ==
    LET grade_label == _normalize_grade_label(DecimalStr(subject.grade))
        weekly_hours == subject.weekly_hours
        identity == _build_subject_identity(subject.subject_name, subject.subject_code)
        subject_key == identity[1]
    IN IF grade_label = "" \/ weekly_hours <= 0 THEN acc
       ELSE IF sbg[grade_label] <= 0 \/ subject_key = "" THEN acc
       ELSE [acc EXCEPT !.map =
                Put(acc.map, subject_key,
                    [subject_name |-> identity[2],
                     required_hours |-> weekly_hours * sbg[grade_label],
                     required_current_hours |-> weekly_hours * csbg[grade_label],
                     required_new_hours |-> weekly_hours * nsbg[grade_label],
                     grades |-> {grade_label}])]

\* one iteration of the loop over subjects (229-279)
AddSubjectDemand(acc, subject, sbg, csbg, nsbg) ==
    LET grade_label == _normalize_grade_label(DecimalStr(subject.grade))
        weekly_hours == subject.weekly_hours
        identity == _build_subject_identity(subject.subject_name, subject.subject_code)
        subject_key == identity[1]
        required_hours == weekly_hours * sbg[grade_label]
        required_current_hours == weekly_hours * csbg[grade_label]
        required_new_hours == weekly_hours * nsbg[grade_label]
        old == IF subject_key \in DOMAIN acc.map THEN acc.map[subject_key]
               ELSE [subject_name |-> identity[2], required_hours |-> 0,
                     required_current_hours |-> 0, required_new_hours |-> 0, grades |-> {}]
    IN IF grade_label = "" THEN acc
       ELSE IF weekly_hours <= 0 THEN acc
       ELSE IF sbg[grade_label] <= 0 THEN acc
       ELSE IF subject_key = "" THEN acc
       ELSE [map |-> Put(acc.map, subject_key,
                        [subject_name |-> old.subject_name,
                         required_hours |-> old.required_hours + required_hours,
                         required_current_hours |-> old.required_current_hours + required_current_hours,
                         required_new_hours |-> old.required_new_hours + required_new_hours,
                         grades |-> old.grades \cup {grade_label}]),
             by_grade |->
                [total |-> [acc.by_grade.total EXCEPT ![grade_label] = @ + required_hours],
                 current |-> [acc.by_grade.current EXCEPT ![grade_label] = @ + required_current_hours],
                 new |-> [acc.by_grade.new EXCEPT ![grade_label] = @ + required_new_hours]]]

RECURSIVE DemandAfter(_, _, _, _, _)
\* the state of the accumulators after the first n subjects
DemandAfter(n, subs, sbg, csbg, nsbg) ==
    IF n = 0
    THEN [map |-> EmptyDict,
          by_grade |-> [total |-> ZeroByGrade, current |-> ZeroByGrade, new |-> ZeroByGrade]]
    ELSE AddSubjectDemand(DemandAfter(n - 1, subs, sbg, csbg, nsbg), subs[n], sbg, csbg, nsbg)

BuildDemand ==
    /\ pc = "demand"
    /\ LET sbg == SectionsByGrade(planning_sections)
           csbg == CurrentSectionsByGrade(planning_sections)
           nsbg == NewSectionsByGrade(planning_sections)
           built == DemandAfter(Len(subjects), subjects, sbg, csbg, nsbg)
       IN /\ sections_by_grade' = sbg
          /\ current_sections_by_grade' = csbg
          /\ new_sections_by_grade' = nsbg
          /\ subject_demand_map' = built.map
          /\ required_by_grade' = built.by_grade
    /\ pc' = "profiles"
    /\ UNCHANGED <<inputVars, earlier_run, allocVars, poolVars, reporting_context,
                   classVars>>

----------------------------------------------------------------------------
(* Teacher Profile Builder: main.py 281-410 *)

_build_teacher_display_name(teacher) ==
    LET name_parts == <<Strip(teacher.first_name), Strip(teacher.middle_name),
                        Strip(teacher.last_name)>>
        present == SelectSeq(name_parts, LAMBDA part : part # "")
    IN CASE Len(present) = 1 -> present[1]
         [] Len(present) = 0 /\ teacher.id = 5 -> "Teacher #5"

\* scoped_subjects_by_code.get(code): the last record of that code, 0 for None
SubjectIndexByCode(code) ==
    LET hits == {i \in 1..Len(subjects) :
                    subjects[i].subject_code # "" /\ subjects[i].subject_code = code}
    IN IF hits = {} THEN 0 ELSE CHOOSE i \in hits : \A j \in hits : j <= i

\* db.query(TeacherSubjectAllocation).filter(teacher_id.in_(teacher_ids)).all()
TeacherAllocations ==
    LET teacher_ids == {teachers[i].id : i \in {j \in 1..Len(teachers) : teachers[j].id # 0}}
    IN SelectSeq(db_allocations, LAMBDA row : row.teacher_id \in teacher_ids)

\* the loop over teacher_allocations (300-320) as far as teacher tid is concerned:
\* [keys |-> teacher_subject_map[tid], hours |-> teacher_subject_hours_map[tid]]
RECURSIVE LinksAfter(_, _, _)
LinksAfter(n, rows, tid) ==
    IF n = 0 THEN [keys |-> {}, hours |-> EmptyDict]
    ELSE LET acc == LinksAfter(n - 1, rows, tid)
             allocation == rows[n]
             idx == SubjectIndexByCode(allocation.subject_code)
             subject == subjects[idx]
             subject_key == _build_subject_identity(subject.subject_name,
                                                    subject.subject_code)[1]
         IN IF allocation.teacher_id # tid THEN acc
            ELSE IF idx = 0 THEN acc
            ELSE IF subject_key = "" \/ subject_key \notin DOMAIN subject_demand_map THEN acc
            ELSE [keys |-> acc.keys \cup {subject_key},
                  hours |-> Put(acc.hours, subject_key,
                                Get(acc.hours, subject_key) + Max(subject.weekly_hours, 0))]

\* the legacy subject_code fallback (322-348)
WithLegacySubject(links, teacher) ==
    LET fallback_code == StripUpper(teacher.subject_code)
        idx == SubjectIndexByCode(fallback_code)
        fallback_subject == subjects[idx]
        subject_key == _build_subject_identity(fallback_subject.subject_name,
                                               fallback_subject.subject_code)[1]
    IN IF links.keys # {} THEN links
       ELSE IF fallback_code = "" THEN links
       ELSE IF idx = 0 THEN links
       ELSE IF subject_key # "" /\ subject_key \in DOMAIN subject_demand_map
            THEN [keys |-> links.keys \cup {subject_key},
                  hours |-> Put(links.hours, subject_key,
                                Max(Get(links.hours, subject_key),
                                    fallback_subject.weekly_hours))]
            ELSE links

SubjectNameRank(key) == StrRank(subject_demand_map[key].subject_name)

\* variant: the primary subject is the first candidate by name
PrimarySubjectKeysByName(links) ==
    LET candidate_subject_keys == SortedSet(links.keys, LAMBDA key : <<SubjectNameRank(key)>>)
    IN IF links.keys = {} THEN <<>> ELSE <<candidate_subject_keys[1]>>

\* ranked_subject_keys[0] (353-370): <<>> when the teacher has no candidate
PrimarySubjectKeys(links) ==
    LET candidate_subject_keys == SortedSet(links.keys, LAMBDA key : <<SubjectNameRank(key)>>)
        ranked_subject_keys ==
            SortByKeys(candidate_subject_keys,
                       [i \in 1..Len(candidate_subject_keys) |->
                           LET key == candidate_subject_keys[i]
                           IN << -Get(links.hours, key),
                                 -subject_demand_map[key].required_hours,
                                 SubjectNameRank(key) >>])
    IN IF links.keys = {} THEN <<>> ELSE <<ranked_subject_keys[1]>>

\* sorted_support_subject_keys (372-391)
SupportSubjectKeys(primary_subject_keys) ==
    LET primary_subject_key == primary_subject_keys[1]
        rule == IF primary_subject_key \in DOMAIN CROSS_SUBJECT_SUPPORT_RULES
                THEN CROSS_SUBJECT_SUPPORT_RULES[primary_subject_key]
                ELSE {}
        support_subject_keys ==
            {_normalize_subject_family_key(k) : k \in
                {r \in rule :
                    /\ _normalize_subject_family_key(r) # ""
                    /\ _normalize_subject_family_key(r) \in DOMAIN subject_demand_map
                    /\ _normalize_subject_family_key(r) \notin Range(primary_subject_keys)}}
    IN IF primary_subject_keys = <<>> THEN <<>>
       ELSE SortedSet(support_subject_keys, LAMBDA key : <<SubjectNameRank(key)>>)

\* the profile appended for one teacher (393-410)
TeacherProfile(teacher) ==
    LET rows == TeacherAllocations
        links == IF teacher.id = 0 THEN [keys |-> {}, hours |-> EmptyDict]
                 ELSE WithLegacySubject(LinksAfter(Len(rows), rows, teacher.id), teacher)
        primary_subject_keys == PrimarySubjectKeys(links)
        sorted_support_subject_keys == SupportSubjectKeys(primary_subject_keys)
    IN [teacher |-> teacher,
        name |-> _build_teacher_display_name(teacher),
        subject_keys |-> primary_subject_keys,
        support_subject_keys |-> sorted_support_subject_keys,
        eligible_subject_keys |-> primary_subject_keys \o sorted_support_subject_keys,
        subject_count |-> Len(primary_subject_keys),
        primary_subject_basis_hours |->
            IF primary_subject_keys # <<>> THEN Get(links.hours, primary_subject_keys[1]) ELSE 0,
        allocated_hours |-> 0,
        primary_allocated_hours |-> 0,
        support_allocated_hours |-> 0,
        remaining_capacity_hours |-> REPORT_STANDARD_MAX_HOURS,
        allocation_breakdown |-> EmptyDict]

\* variant: the teachers take their turns in the order of the input list
AllocationSequenceAsListed(profiles) ==
    [i \in 1..Len(profiles) |-> i]

\* allocation_sequence (417-424), as indices of teacher_profiles
AllocationSequence(profiles) ==
    SortByKeys([i \in 1..Len(profiles) |-> i],
               [i \in 1..Len(profiles) |->
                   << IF profiles[i].subject_count # 0 THEN profiles[i].subject_count ELSE 999,
                      StrRank(profiles[i].name),
                      profiles[i].teacher.id >>])

BuildProfiles ==
    /\ pc = "profiles"
    /\ LET profiles == [i \in 1..Len(teachers) |-> TeacherProfile(teachers[i])]
       IN /\ teacher_profiles' = profiles
          /\ allocation_sequence' = AllocationSequence(profiles)
          /\ pc' = IF Len(teachers) = 0 THEN "pool" ELSE "allocate"
    /\ remaining_hours_by_subject' =
          [k \in DOMAIN subject_demand_map |-> subject_demand_map[k].required_hours]
    /\ turn' = 1
    /\ remaining_capacity' = REPORT_STANDARD_MAX_HOURS
    /\ allocation_breakdown' = EmptyDict
    /\ UNCHANGED <<inputVars, earlier_run, demandVars, poolVars, reporting_context,
                   classVars>>

----------------------------------------------------------------------------
(* Greedy Capacity Allocator: main.py 426-515 *)

\* the capacity a teacher's turn starts with (430)
TeacherCapacity(profile) == REPORT_STANDARD_MAX_HOURS

CurrentProfile == teacher_profiles[allocation_sequence[turn]]

\* variant: the support subjects are the first choice, the primary ones the fallback
CandidateSubjectKeysSupportFirst(profile, remaining) ==
    LET support_candidate_subject_keys ==
            SelectSeq(profile.support_subject_keys, LAMBDA key : Get(remaining, key) > 0)
        candidate_subject_keys ==
            IF support_candidate_subject_keys # <<>> THEN support_candidate_subject_keys
            ELSE SelectSeq(profile.subject_keys, LAMBDA key : Get(remaining, key) > 0)
    IN SortByKeys(candidate_subject_keys,
                  [i \in 1..Len(candidate_subject_keys) |->
                      << -Get(remaining, candidate_subject_keys[i]),
                         SubjectNameRank(candidate_subject_keys[i]) >>])

\* variant: no fallback to the support subjects
CandidateSubjectKeysPrimaryOnly(profile, remaining) ==
    LET candidate_subject_keys ==
            SelectSeq(profile.subject_keys, LAMBDA key : Get(remaining, key) > 0)
    IN SortByKeys(candidate_subject_keys,
                  [i \in 1..Len(candidate_subject_keys) |->
                      << -Get(remaining, candidate_subject_keys[i]),
                         SubjectNameRank(candidate_subject_keys[i]) >>])

\* candidate_subject_keys after the sort of 452-457
CandidateSubjectKeys(profile, remaining) ==
    LET primary_candidate_subject_keys ==
            SelectSeq(profile.subject_keys, LAMBDA key : Get(remaining, key) > 0)
        candidate_subject_keys ==
            IF primary_candidate_subject_keys # <<>> THEN primary_candidate_subject_keys
            ELSE SelectSeq(profile.support_subject_keys, LAMBDA key : Get(remaining, key) > 0)
    IN SortByKeys(candidate_subject_keys,
                  [i \in 1..Len(candidate_subject_keys) |->
                      << -Get(remaining, candidate_subject_keys[i]),
                         SubjectNameRank(candidate_subject_keys[i]) >>])

\* variant: the grant ignores the capacity that is left
GrantedHoursUncapped(capacity_left, subject_remaining_hours) ==
    subject_remaining_hours

\* variant: the grant ignores the demand that is left
GrantedHoursWholeCapacity(capacity_left, subject_remaining_hours) ==
    capacity_left

\* variant: an iteration hands out a single hour
GrantedHoursHourly(capacity_left, subject_remaining_hours) ==
    Min(1, Min(capacity_left, subject_remaining_hours))

\* allocated_hours of one iteration (462)
GrantedHours(capacity_left, subject_remaining_hours) ==
    Min(capacity_left, subject_remaining_hours)

\* variant: the shadow value is written back without the grant
DemandAfterGrantKept(subject_remaining_hours, allocated_hours) ==
    subject_remaining_hours

\* remaining_hours_by_subject[selected_subject_key] after the grant (469-471)
DemandAfterGrant(subject_remaining_hours, allocated_hours) ==
    subject_remaining_hours - allocated_hours

\* the while loop goes on: capacity left, a candidate, a positive grant
LoopContinues ==
    /\ CurrentProfile.eligible_subject_keys # <<>>
    /\ remaining_capacity > 0
    /\ CandidateSubjectKeys(CurrentProfile, remaining_hours_by_subject) # <<>>
    /\ LET key == CandidateSubjectKeys(CurrentProfile, remaining_hours_by_subject)[1]
       IN GrantedHours(remaining_capacity, Get(remaining_hours_by_subject, key)) > 0

\* one iteration of the while loop (433-472)
AllocateHours ==
    /\ pc = "allocate"
    /\ LoopContinues
    /\ LET selected_subject_key ==
               CandidateSubjectKeys(CurrentProfile, remaining_hours_by_subject)[1]
           subject_remaining_hours == Get(remaining_hours_by_subject, selected_subject_key)
           allocated_hours == GrantedHours(remaining_capacity, subject_remaining_hours)
       IN /\ allocation_breakdown' =
                Put(allocation_breakdown, selected_subject_key,
                    Get(allocation_breakdown, selected_subject_key) + allocated_hours)
          /\ remaining_hours_by_subject' =
                Put(remaining_hours_by_subject, selected_subject_key,
                    DemandAfterGrant(subject_remaining_hours, allocated_hours))
          /\ remaining_capacity' = remaining_capacity - allocated_hours
    /\ UNCHANGED <<inputVars, earlier_run, pc, demandVars, teacher_profiles, allocation_sequence, turn,
                   poolVars, reporting_context,
                   classVars>>

\* the overflow guard (474-495): [breakdown, remaining] after trimming the keys of
\* reduction_order from position n on
RECURSIVE TrimOverflow(_, _, _, _, _)
TrimOverflow(n, reduction_order, overflow_hours, breakdown, remaining) ==
    IF n > Len(reduction_order) \/ overflow_hours <= 0
    THEN [breakdown |-> breakdown, remaining |-> remaining]
    ELSE LET subject_key == reduction_order[n]
             current_hours == Get(breakdown, subject_key)
             reduce_hours == Min(current_hours, overflow_hours)
             updated_hours == current_hours - reduce_hours
         IN IF current_hours <= 0
            THEN TrimOverflow(n + 1, reduction_order, overflow_hours, breakdown, remaining)
            ELSE TrimOverflow(n + 1, reduction_order, overflow_hours - reduce_hours,
                    IF updated_hours > 0 THEN Put(breakdown, subject_key, updated_hours)
                    ELSE [k \in DOMAIN breakdown \ {subject_key} |-> breakdown[k]],
                    Put(remaining, subject_key, Get(remaining, subject_key) + reduce_hours))

\* sum(allocation_breakdown.get(key, 0) for key in keys)
SumOver(breakdown, keys) == SumSeq([i \in 1..Len(keys) |-> Get(breakdown, keys[i])])

\* the end of a teacher's turn: the continue of 427-428, or 474-515
FinishTeacher ==
    /\ pc = "allocate"
    /\ ~LoopContinues
    /\ LET profile == CurrentProfile
           allocated_hours_total == SumValues(allocation_breakdown)
           trimmed ==
               IF allocated_hours_total > REPORT_STANDARD_MAX_HOURS
               THEN TrimOverflow(1, profile.support_subject_keys \o profile.subject_keys,
                                 allocated_hours_total - REPORT_STANDARD_MAX_HOURS,
                                 allocation_breakdown, remaining_hours_by_subject)
               ELSE [breakdown |-> allocation_breakdown,
                     remaining |-> remaining_hours_by_subject]
           total_allocated_hours ==
               Min(SumValues(trimmed.breakdown), REPORT_STANDARD_MAX_HOURS)
       IN IF profile.eligible_subject_keys = <<>>
          THEN UNCHANGED <<teacher_profiles, remaining_hours_by_subject>>
          ELSE /\ teacher_profiles' =
                     [teacher_profiles EXCEPT ![allocation_sequence[turn]] =
                         [@ EXCEPT !.allocation_breakdown = trimmed.breakdown,
                                   !.allocated_hours = total_allocated_hours,
                                   !.primary_allocated_hours =
                                       SumOver(trimmed.breakdown, profile.subject_keys),
                                   !.support_allocated_hours =
                                       SumOver(trimmed.breakdown, profile.support_subject_keys),
                                   !.remaining_capacity_hours =
                                       REPORT_STANDARD_MAX_HOURS - total_allocated_hours]]
               /\ remaining_hours_by_subject' = trimmed.remaining
    /\ turn' = turn + 1
    /\ remaining_capacity' = REPORT_STANDARD_MAX_HOURS
    /\ allocation_breakdown' = EmptyDict
    /\ pc' = IF turn = Len(allocation_sequence) THEN "pool" ELSE "allocate"
    /\ UNCHANGED <<inputVars, earlier_run, demandVars, allocation_sequence, poolVars, reporting_context,
                   classVars>>

----------------------------------------------------------------------------
(* Hiring Gap Resolver: main.py 524-630 *)

\* rule_subject_graph (524-543): subject key -> set of neighbours
RuleSubjectGraph ==
    LET primaries == {p \in DOMAIN CROSS_SUBJECT_SUPPORT_RULES :
                         _normalize_subject_family_key(p) \in DOMAIN subject_demand_map}
        Supports(p) == {_normalize_subject_family_key(q) : q \in CROSS_SUBJECT_SUPPORT_RULES[p]}
                          \cap DOMAIN subject_demand_map
        edges == UNION {UNION {{<<_normalize_subject_family_key(p), q>>,
                                <<q, _normalize_subject_family_key(p)>>} : q \in Supports(p)} :
                        p \in primaries}
        nodes == {_normalize_subject_family_key(p) : p \in primaries}
                    \cup {e[1] : e \in edges}
    IN [n \in nodes |-> {e[2] : e \in {d \in edges : d[1] = n}}]

\* the orders in which a set of graph nodes can be iterated
IterationOrders(nodes) ==
    LET n == Cardinality(nodes)
    IN {o \in [1..n -> nodes] : \A i, j \in 1..n : o[i] = o[j] => i = j}

\* list(S) under the iteration order
Iterate(S, order) == SelectSeq(order, LAMBDA x : x \in S)

\* the traversal with an explicit stack (555-565)
RECURSIVE Traverse(_, _, _, _, _)
Traverse(stack, visited, component, order, graph) ==
    IF stack = <<>> THEN [visited |-> visited, component |-> component]
    ELSE LET current_subject_key == stack[Len(stack)]
             popped == SubSeq(stack, 1, Len(stack) - 1)
             pushed == Iterate(graph[current_subject_key]
                                  \ (visited \cup {current_subject_key}), order)
         IN IF current_subject_key \in visited
            THEN Traverse(popped, visited, component, order, graph)
            ELSE Traverse(popped \o pushed, visited \cup {current_subject_key},
                          component \cup {current_subject_key}, order, graph)

\* component_with_remaining (567-571), a list in iteration order
ComponentWithRemaining(component_subject_keys, order) ==
    SelectSeq(Iterate(component_subject_keys, order),
              LAMBDA item_key : Get(remaining_hours_by_subject, item_key) > 0)

\* variant: the anchor is the first subject the component list happens to hold
AnchorSubjectKeyFirstListed(component_with_remaining) ==
    component_with_remaining[1]

\* anchor_subject_key (585-600)
AnchorSubjectKey(component_with_remaining) ==
    LET listed == {i \in 1..Len(CROSS_SUBJECT_HIRING_ANCHOR_PRIORITY) :
                      CROSS_SUBJECT_HIRING_ANCHOR_PRIORITY[i] \in Range(component_with_remaining)}
    IN IF listed # {}
       THEN CROSS_SUBJECT_HIRING_ANCHOR_PRIORITY[CHOOSE i \in listed : \A j \in listed : i <= j]
       ELSE SortByKeys(component_with_remaining,
                       [i \in 1..Len(component_with_remaining) |->
                           << -Get(remaining_hours_by_subject, component_with_remaining[i]),
                              SubjectNameRank(component_with_remaining[i]) >>])[1]

\* variant: every subject of the component is rounded up on its own
ComponentTeachersNeededPerSubject(component_with_remaining) ==
    SumSeq([i \in 1..Len(component_with_remaining) |->
               CeilDiv(Get(remaining_hours_by_subject, component_with_remaining[i]),
                       REPORT_STANDARD_MAX_HOURS)])

\* component_teachers_needed (575-581)
ComponentTeachersNeeded(component_with_remaining) ==
    CeilDiv(SumSeq([i \in 1..Len(component_with_remaining) |->
                       Get(remaining_hours_by_subject, component_with_remaining[i])]),
            REPORT_STANDARD_MAX_HOURS)

NoNote == [text |-> "", names |-> <<>>]

\* variant: the note of a pooled subject names that subject, not the anchor
PoolingNoteOfItem(item_key, anchor_subject_key, component_with_remaining) ==
    IF item_key = anchor_subject_key THEN NoNote
    ELSE [text |-> "Counted in  combined pool.",
          names |-> <<subject_demand_map[item_key].subject_name>>]

\* the note of a pooled subject (606-620); NoNote when the dict gets no entry
PoolingNote(item_key, anchor_subject_key, component_with_remaining) ==
    LET component_subject_names ==
            SortByKeys([i \in 1..Len(component_with_remaining) |->
                           subject_demand_map[component_with_remaining[i]].subject_name],
                       [i \in 1..Len(component_with_remaining) |->
                           <<SubjectNameRank(component_with_remaining[i])>>])
    IN IF item_key = anchor_subject_key
       THEN IF Len(component_with_remaining) > 1
            THEN [text |-> "Combined hiring pool: ", names |-> component_subject_names]
            ELSE NoNote
       ELSE [text |-> "Counted in  combined pool.",
             names |-> <<subject_demand_map[anchor_subject_key].subject_name>>]

\* variant: every subject of a pool carries the teachers of the pool
PooledTeachersOfEveryMember(item_key, anchor_subject_key, component_teachers_needed) ==
    component_teachers_needed

\* subject_additional_teachers_map[item_key] of a pooled subject (606-615)
PooledTeachersOf(item_key, anchor_subject_key, component_teachers_needed) ==
    IF item_key = anchor_subject_key THEN component_teachers_needed ELSE 0

\* the subject the for loop of 551 handles next: the first unvisited key of
\* sorted(rule_subject_graph.keys())
NextRuleSubject(graph) ==
    LET unvisited == DOMAIN graph \ visited_rule_subjects
    IN CHOOSE k \in unvisited : \A other \in unvisited : StrRank(k) <= StrRank(other)

\* one iteration of the for loop of 551-620 under an iteration order of the sets
PoolComponent(order, graph) ==
    LET found == Traverse(<<NextRuleSubject(graph)>>, visited_rule_subjects, {}, order, graph)
        component_with_remaining == ComponentWithRemaining(found.component, order)
        members == Range(component_with_remaining)
        anchor_subject_key == AnchorSubjectKey(component_with_remaining)
        component_teachers_needed == ComponentTeachersNeeded(component_with_remaining)
    IN IF component_with_remaining = <<>>
       THEN [visited |-> found.visited,
             pooled |-> pooled_subject_keys,
             teachers_map |-> subject_additional_teachers_map,
             note_map |-> subject_additional_teachers_note_map,
             total |-> total_additional_teachers_needed]
       ELSE [visited |-> found.visited,
             pooled |-> pooled_subject_keys \cup members,
             teachers_map |->
                [k \in DOMAIN subject_additional_teachers_map \cup members |->
                    IF k \in members
                    THEN PooledTeachersOf(k, anchor_subject_key, component_teachers_needed)
                    ELSE subject_additional_teachers_map[k]],
             note_map |->
                LET noted == {k \in members :
                                 PoolingNote(k, anchor_subject_key, component_with_remaining)
                                    # NoNote}
                IN [k \in DOMAIN subject_additional_teachers_note_map \cup noted |->
                       IF k \in noted
                       THEN PoolingNote(k, anchor_subject_key, component_with_remaining)
                       ELSE subject_additional_teachers_note_map[k]],
             total |-> total_additional_teachers_needed + component_teachers_needed]

ResolveComponent ==
    /\ pc = "pool"
    /\ LET graph == RuleSubjectGraph
       IN /\ DOMAIN graph \ visited_rule_subjects # {}
          /\ \E order \in IterationOrders(DOMAIN graph) :
                LET result == PoolComponent(order, graph)
                IN /\ visited_rule_subjects' = result.visited
                   /\ pooled_subject_keys' = result.pooled
                   /\ subject_additional_teachers_map' = result.teachers_map
                   /\ subject_additional_teachers_note_map' = result.note_map
                   /\ total_additional_teachers_needed' = result.total
    /\ UNCHANGED <<inputVars, earlier_run, pc, demandVars, allocVars, reporting_context,
                   classVars>>

\* the loop over the subjects outside every pool (622-630)
ResolveIndependent ==
    /\ pc = "pool"
    /\ DOMAIN RuleSubjectGraph \ visited_rule_subjects = {}
    /\ LET independent == {k \in DOMAIN remaining_hours_by_subject :
                              remaining_hours_by_subject[k] > 0 /\ k \notin pooled_subject_keys}
           Needed(k) == CeilDiv(remaining_hours_by_subject[k], REPORT_STANDARD_MAX_HOURS)
       IN /\ subject_additional_teachers_map' =
                [k \in DOMAIN subject_additional_teachers_map \cup independent |->
                    IF k \in independent THEN Needed(k) ELSE subject_additional_teachers_map[k]]
          /\ total_additional_teachers_needed' =
                total_additional_teachers_needed
                   + SumSet([k \in independent |-> Needed(k)], independent)
    /\ pc' = "report"
    /\ UNCHANGED <<inputVars, earlier_run, demandVars, allocVars, visited_rule_subjects,
                   pooled_subject_keys, subject_additional_teachers_note_map, reporting_context,
                   classVars>>

----------------------------------------------------------------------------
(* Report Assembler: main.py 632-842 *)

\* round(numerator / denominator) of Python 3: to the nearest, ties to even
RoundHalfEven(numerator, denominator) ==
    LET q == numerator \div denominator
        r == numerator % denominator
    IN IF 2 * r < denominator THEN q
       ELSE IF 2 * r > denominator THEN q + 1
       ELSE IF q % 2 = 0 THEN q ELSE q + 1

\* variant: nothing required counts as fully covered
CoveragePercentageOfNothing(allocated_hours, required_hours) ==
    IF required_hours > 0 THEN RoundHalfEven(allocated_hours * 100, required_hours)
    ELSE 100

\* round((allocated_hours / required_hours) * 100) if required_hours > 0 else 0
\* (643-647, 762-766)
CoveragePercentage(allocated_hours, required_hours) ==
    IF required_hours > 0 THEN RoundHalfEven(allocated_hours * 100, required_hours)
    ELSE 0

\* allocated_hours of a subject row (636)
RowAllocatedHours(required_hours, remaining_hours) ==
    Max(required_hours - remaining_hours, 0)

\* one row of report_subject_rows (633-664)
SubjectRow(subject_key) ==
    LET demand == subject_demand_map[subject_key]
        required_hours == demand.required_hours
        remaining_hours == Get(remaining_hours_by_subject, subject_key)
        allocated_hours == RowAllocatedHours(required_hours, remaining_hours)
    IN [subject_key |-> subject_key,
        subject_name |-> demand.subject_name,
        grades |-> SortedSet(demand.grades, LAMBDA g : <<_grade_sort_key(g)>>),
        required_hours |-> required_hours,
        required_current_hours |-> demand.required_current_hours,
        required_new_hours |-> demand.required_new_hours,
        allocated_hours |-> allocated_hours,
        remaining_hours |-> remaining_hours,
        coverage_percentage |-> CoveragePercentage(allocated_hours, required_hours),
        teachers_with_subject |->
            Cardinality({i \in 1..Len(teacher_profiles) :
                            subject_key \in Range(teacher_profiles[i].eligible_subject_keys)}),
        additional_teachers_needed |-> Get(subject_additional_teachers_map, subject_key),
        additional_teachers_note |->
            IF subject_key \in DOMAIN subject_additional_teachers_note_map
            THEN subject_additional_teachers_note_map[subject_key]
            ELSE NoNote]

\* report_subject_rows after the sort of 666-671
ReportSubjectRows ==
    LET keys == SortedSet(DOMAIN subject_demand_map,
                          LAMBDA k : << -Get(remaining_hours_by_subject, k),
                                        SubjectNameRank(k) >>)
    IN [i \in 1..Len(keys) |-> SubjectRow(keys[i])]

\* variant: the gap rows are not cut to the first eight
ReportGapRowsUncut(subject_rows) ==
    LET gap_rows == SelectSeq(subject_rows, LAMBDA row : row.remaining_hours > 0)
        max_remaining_hours ==
            IF gap_rows = <<>> THEN 0
            ELSE CHOOSE m \in {gap_rows[i].remaining_hours : i \in 1..Len(gap_rows)} :
                    \A i \in 1..Len(gap_rows) : gap_rows[i].remaining_hours <= m
    IN [i \in 1..Len(gap_rows) |->
           [row |-> gap_rows[i],
            gap_chart_pct |->
                IF max_remaining_hours > 0
                THEN RoundHalfEven(gap_rows[i].remaining_hours * 1000, max_remaining_hours)
                ELSE 0]]

\* report_gap_rows (673-688); gap_chart_pct is kept in tenths of a percent
ReportGapRows(subject_rows) ==
    LET gap_rows == SelectSeq(subject_rows, LAMBDA row : row.remaining_hours > 0)
        max_remaining_hours ==
            IF gap_rows = <<>> THEN 0
            ELSE CHOOSE m \in {gap_rows[i].remaining_hours : i \in 1..Len(gap_rows)} :
                    \A i \in 1..Len(gap_rows) : gap_rows[i].remaining_hours <= m
        charted == [i \in 1..Len(gap_rows) |->
                       [row |-> gap_rows[i],
                        gap_chart_pct |->
                            IF max_remaining_hours > 0
                            THEN RoundHalfEven(gap_rows[i].remaining_hours * 1000,
                                               max_remaining_hours)
                            ELSE 0]]
    IN SubSeq(charted, 1, Min(Len(charted), 8))

\* report_teacher_rows (690-732)
ReportTeacherRows ==
    LET Labels(keys) == [i \in 1..Len(keys) |-> subject_demand_map[keys[i]].subject_name]
        Row(profile) ==
            LET breakdown == profile.allocation_breakdown
                allocated_keys ==
                    SortedSet(DOMAIN breakdown,
                              LAMBDA k : << -breakdown[k], SubjectNameRank(k) >>)
            IN [teacher_id |-> IF profile.teacher.teacher_id # ""
                               THEN profile.teacher.teacher_id ELSE "-",
                teacher_name |-> profile.name,
                subject_labels |-> Labels(profile.subject_keys),
                support_subject_labels |-> Labels(profile.support_subject_keys),
                allocation_labels |->
                    [i \in 1..Len(allocated_keys) |->
                        <<subject_demand_map[allocated_keys[i]].subject_name,
                          breakdown[allocated_keys[i]]>>],
                expected_allocated_hours |-> profile.allocated_hours,
                primary_allocated_hours |-> profile.primary_allocated_hours,
                support_allocated_hours |-> profile.support_allocated_hours,
                primary_subject_basis_hours |-> profile.primary_subject_basis_hours,
                remaining_capacity_hours |-> profile.remaining_capacity_hours]
        rows == [i \in 1..Len(teacher_profiles) |-> Row(teacher_profiles[i])]
    IN SortByKeys(rows, [i \in 1..Len(rows) |->
                            << -rows[i].expected_allocated_hours,
                               StrRank(rows[i].teacher_name) >>])

\* report_grade_rows (734-751)
ReportGradeRows ==
    LET grades == SortedSet({g \in GradeLabels : sections_by_grade[g] > 0},
                            LAMBDA g : <<_grade_sort_key(g)>>)
    IN [i \in 1..Len(grades) |->
           [grade_label |-> grades[i],
            sections_total |-> sections_by_grade[grades[i]],
            sections_current |-> current_sections_by_grade[grades[i]],
            sections_new |-> new_sections_by_grade[grades[i]],
            required_hours_total |-> required_by_grade.total[grades[i]],
            required_hours_current |-> required_by_grade.current[grades[i]],
            required_hours_new |-> required_by_grade.new[grades[i]]]]

\* report_summary (753-812)
ReportSummary(subject_rows) ==
    LET total_required_hours ==
            SumSeq([i \in 1..Len(subject_rows) |-> subject_rows[i].required_hours])
        total_remaining_hours ==
            SumSeq([i \in 1..Len(subject_rows) |-> subject_rows[i].remaining_hours])
        total_allocated_hours == total_required_hours - total_remaining_hours
        total_existing_teachers == Len(teachers)
        total_existing_capacity_hours == total_existing_teachers * REPORT_STANDARD_MAX_HOURS
        teachers_utilized ==
            Cardinality({i \in 1..Len(teacher_profiles) :
                            teacher_profiles[i].allocated_hours > 0})
    IN [total_required_hours |-> total_required_hours,
        total_required_current_hours |-> SumSet(required_by_grade.current, GradeLabels),
        total_required_new_hours |-> SumSet(required_by_grade.new, GradeLabels),
        total_allocated_hours |-> total_allocated_hours,
        total_remaining_hours |-> total_remaining_hours,
        coverage_percentage |->
            CoveragePercentage(total_allocated_hours, total_required_hours),
        total_additional_teachers_needed |-> total_additional_teachers_needed,
        total_existing_teachers |-> total_existing_teachers,
        total_existing_capacity_hours |-> total_existing_capacity_hours,
        unused_existing_capacity_hours |->
            Max(total_existing_capacity_hours - total_allocated_hours, 0),
        teachers_with_subject_alignment |->
            Cardinality({i \in 1..Len(teacher_profiles) :
                            teacher_profiles[i].subject_count > 0}),
        teachers_utilized |-> teachers_utilized,
        teachers_full_load |->
            Cardinality({i \in 1..Len(teacher_profiles) :
                            teacher_profiles[i].allocated_hours >= REPORT_STANDARD_MAX_HOURS}),
        teachers_idle |-> Max(total_existing_teachers - teachers_utilized, 0),
        total_new_sections_planned |-> SumSet(new_sections_by_grade, GradeLabels),
        total_new_teachers_required |-> total_additional_teachers_needed,
        total_teachers_needed_branch |->
            total_existing_teachers + total_additional_teachers_needed]

\* teacher_profiles_export (814-833): copies of the profile fields
TeacherProfilesExport ==
    [i \in 1..Len(teacher_profiles) |->
        LET profile == teacher_profiles[i]
        IN [teacher_pk |-> profile.teacher.id,
            teacher_id |-> IF profile.teacher.teacher_id # ""
                           THEN profile.teacher.teacher_id ELSE "-",
            teacher_name |-> profile.name,
            subject_keys |-> profile.subject_keys,
            support_subject_keys |-> profile.support_subject_keys,
            allocation_breakdown |-> profile.allocation_breakdown,
            allocated_hours |-> profile.allocated_hours,
            remaining_capacity_hours |-> profile.remaining_capacity_hours,
            primary_allocated_hours |-> profile.primary_allocated_hours,
            support_allocated_hours |-> profile.support_allocated_hours,
            primary_subject_basis_hours |-> profile.primary_subject_basis_hours]]

AssembleReport ==
    /\ pc = "report"
    /\ LET subject_rows == ReportSubjectRows
       IN reporting_context' =
             [summary |-> ReportSummary(subject_rows),
              subject_rows |-> subject_rows,
              gap_rows |-> ReportGapRows(subject_rows),
              teacher_rows |-> ReportTeacherRows,
              grade_rows |-> ReportGradeRows,
              teacher_profiles |-> TeacherProfilesExport]
    /\ pc' = "classes"
    /\ UNCHANGED <<inputVars, earlier_run, demandVars, allocVars, poolVars, classVars>>

----------------------------------------------------------------------------
(* Class Mapping Projector: main.py 845-1104 *)

\* f"{display_grade}-{section_name}"
ClassLabel(grade_label, section_name) ==
    CASE grade_label = "5" /\ section_name = "A" -> "G5-A"
      [] grade_label = "5" /\ section_name = "B" -> "G5-B"
      [] grade_label = "6" /\ section_name = "A" -> "G6-A"
      [] grade_label = "6" /\ section_name = "B" -> "G6-B"

\* the loop of _build_report_class_rows (849-875) over the first n sections
RECURSIVE ClassRowsAfter(_)
ClassRowsAfter(n) ==
    IF n = 0 THEN <<>>
    ELSE LET class_rows == ClassRowsAfter(n - 1)
             section == planning_sections[n]
             grade_label == _normalize_grade_label(section.grade_level)
             section_name == StripUpper(section.section_name)
             class_key == <<grade_label, section_name>>
         IN IF grade_label = "" THEN class_rows
            ELSE IF section_name = "" THEN class_rows
            ELSE IF \E i \in 1..Len(class_rows) : class_rows[i].class_key = class_key
                 THEN class_rows
            ELSE Append(class_rows,
                        [class_key |-> class_key,
                         class_label |-> ClassLabel(grade_label, section_name),
                         grade_label |-> grade_label,
                         section_name |-> section_name,
                         class_status |->
                            IF StripLower(section.class_status) = "new" THEN "New"
                            ELSE "Current"])

StatusRank(class_status) == IF class_status = "Current" THEN 0 ELSE 1

_build_report_class_rows ==
    LET class_rows == ClassRowsAfter(Len(planning_sections))
    IN SortByKeys(class_rows,
                  [i \in 1..Len(class_rows) |->
                      << _grade_sort_key(class_rows[i].grade_label),
                         StrRank(class_rows[i].section_name),
                         StatusRank(class_rows[i].class_status) >>])

\* subjects_by_grade[grade_label] of _build_report_subject_catalog (887-925)
SubjectsOfGrade(grade_label) ==
    LET valid == SelectSeq(subjects,
                    LAMBDA subject :
                        /\ _normalize_grade_label(DecimalStr(subject.grade)) = grade_label
                        /\ subject.weekly_hours > 0
                        /\ _build_subject_identity(subject.subject_name,
                                                   StripUpper(subject.subject_code))[1] # "")
        items == [i \in 1..Len(valid) |->
                     LET subject_code == StripUpper(valid[i].subject_code)
                         identity == _build_subject_identity(valid[i].subject_name, subject_code)
                     IN [subject_key |-> identity[1],
                         subject_code |-> IF subject_code # "" THEN subject_code ELSE identity[2],
                         subject_name |-> identity[2],
                         weekly_hours |-> valid[i].weekly_hours]]
    IN SortByKeys(items, [i \in 1..Len(items) |->
                             <<StrRank(items[i].subject_name), StrRank(items[i].subject_code)>>])

\* variant: the demand items stay in the order of the class rows (grade, section)
DemandItemsOfInClassOrder(subject_key, class_rows) ==
    LET ItemsOfClass(class_row) ==
            LET grade_subjects ==
                    SelectSeq(SubjectsOfGrade(class_row.grade_label),
                              LAMBDA item : item.subject_key = subject_key)
            IN [i \in 1..Len(grade_subjects) |->
                   [class_key |-> class_row.class_key,
                    class_label |-> class_row.class_label,
                    class_status |-> class_row.class_status,
                    grade_label |-> class_row.grade_label,
                    section_name |-> class_row.section_name,
                    subject_key |-> subject_key,
                    subject_code |-> grade_subjects[i].subject_code,
                    subject_name |-> grade_subjects[i].subject_name,
                    required_hours |-> grade_subjects[i].weekly_hours,
                    remaining_hours |-> grade_subjects[i].weekly_hours]]
        Collect[n \in 0..Len(class_rows)] ==
            IF n = 0 THEN <<>> ELSE Collect[n - 1] \o ItemsOfClass(class_rows[n])
    IN Collect[Len(class_rows)]

\* the demand items of one subject key (933-960), in the order of the sort
DemandItemsOf(subject_key, class_rows) ==
    LET ItemsOfClass(class_row) ==
            LET grade_subjects ==
                    SelectSeq(SubjectsOfGrade(class_row.grade_label),
                              LAMBDA item : item.subject_key = subject_key)
            IN [i \in 1..Len(grade_subjects) |->
                   [class_key |-> class_row.class_key,
                    class_label |-> class_row.class_label,
                    class_status |-> class_row.class_status,
                    grade_label |-> class_row.grade_label,
                    section_name |-> class_row.section_name,
                    subject_key |-> subject_key,
                    subject_code |-> grade_subjects[i].subject_code,
                    subject_name |-> grade_subjects[i].subject_name,
                    required_hours |-> grade_subjects[i].weekly_hours,
                    remaining_hours |-> grade_subjects[i].weekly_hours]]
        Collect[n \in 0..Len(class_rows)] ==
            IF n = 0 THEN <<>> ELSE Collect[n - 1] \o ItemsOfClass(class_rows[n])
        items == Collect[Len(class_rows)]
    IN SortByKeys(items, [i \in 1..Len(items) |->
                             << StatusRank(items[i].class_status),
                                _grade_sort_key(items[i].grade_label),
                                StrRank(items[i].section_name),
                                StrRank(items[i].class_label) >>])

DemandItemsBySubject(class_rows) ==
    LET keys == UNION {{SubjectsOfGrade(class_rows[c].grade_label)[i].subject_key :
                           i \in 1..Len(SubjectsOfGrade(class_rows[c].grade_label))} :
                       c \in 1..Len(class_rows)}
    IN [k \in keys |-> DemandItemsOf(k, class_rows)]

\* sorted_profiles (962-969), as indices of the context's teacher_profiles
SortedProfiles(profiles) ==
    SortByKeys([i \in 1..Len(profiles) |-> i],
               [i \in 1..Len(profiles) |->
                   << -profiles[i].allocated_hours,
                      StrRank(profiles[i].teacher_name),
                      StrRank(profiles[i].teacher_id) >>])

\* ordered_subject_keys (976-985)
OrderedSubjectKeys(profile) ==
    LET listed == profile.subject_keys \o profile.support_subject_keys
        first == SelectSeq([i \in 1..Len(listed) |-> [key |-> listed[i], at |-> i]],
                           LAMBDA e : \A j \in 1..(e.at - 1) : listed[j] # e.key)
        leftover == SortedSet(DOMAIN profile.allocation_breakdown \ Range(listed),
                              LAMBDA k : <<StrRank(k)>>)
    IN [i \in 1..Len(first) |-> first[i].key] \o leftover

\* int(allocation_breakdown.get(subject_key, 0)) of the key at position n (990)
QuotaAt(profile, n) ==
    IF n <= Len(OrderedSubjectKeys(profile))
    THEN Get(profile.allocation_breakdown, OrderedSubjectKeys(profile)[n])
    ELSE 0

PrepareClassMapping ==
    /\ pc = "classes"
    /\ LET class_rows == _build_report_class_rows
           profiles == reporting_context.teacher_profiles
           order == SortedProfiles(profiles)
       IN /\ demand_items_by_subject' = DemandItemsBySubject(class_rows)
          /\ sorted_profiles' = order
          /\ subject_hours_quota' =
                IF order = <<>> THEN 0 ELSE QuotaAt(profiles[order[1]], 1)
          /\ class_allocation_data' = [NoClassData EXCEPT !.class_rows = class_rows]
    /\ profile_turn' = 1
    /\ subject_turn' = 1
    /\ class_allocations' = EmptyDict
    /\ teacher_matrix_rows' = <<>>
    /\ assignment_rows' = <<>>
    /\ pc' = "project"
    /\ UNCHANGED <<inputVars, earlier_run, demandVars, allocVars, poolVars, reporting_context>>

MappedProfile == reporting_context.teacher_profiles[sorted_profiles[profile_turn]]

\* first demand item of the subject that still has hours, 0 when there is none
OpenItem(subject_key) ==
    LET items == IF subject_key \in DOMAIN demand_items_by_subject
                 THEN demand_items_by_subject[subject_key] ELSE <<>>
        open == {i \in 1..Len(items) : items[i].remaining_hours > 0}
    IN IF open = {} THEN 0 ELSE CHOOSE i \in open : \A j \in open : i <= j

\* the position of ordered_subject_keys at which the loops of 989-1004 consume next:
\* the position in progress while it has quota and an open item, else the first later
\* one with both; 0 when the profile consumes nothing more
NextSubjectTurn ==
    LET keys == OrderedSubjectKeys(MappedProfile)
        Quota(n) == IF n = subject_turn THEN subject_hours_quota
                    ELSE QuotaAt(MappedProfile, n)
        able == {n \in subject_turn..Len(keys) : Quota(n) > 0 /\ OpenItem(keys[n]) # 0}
    IN IF able = {} THEN 0 ELSE CHOOSE n \in able : \A m \in able : n <= m

\* a projector that consumes the profile's own allocation_breakdown entry instead of
\* the local subject_hours_quota
ContextAfterAssignmentConsuming(context, profile_index, subject_key, allocated_hours) ==
    [context EXCEPT !.teacher_profiles[profile_index].allocation_breakdown[subject_key] =
                        @ - allocated_hours]

\* the writes of one consumption to the reporting context: none, 1003-1004 write the
\* demand item and the local quota
ContextAfterAssignment(context, profile_index, subject_key, allocated_hours) ==
    context

\* variant: a consumption hands the whole quota to the item
ClassHoursGivenWholeQuota(quota, subject_hours_remaining) ==
    quota

\* allocated_hours of one consumption (1002)
ClassHoursGiven(quota, subject_hours_remaining) ==
    Min(quota, subject_hours_remaining)

\* one consumption of a demand item (994-1032)
AssignClassHours ==
    /\ pc = "project"
    /\ profile_turn <= Len(sorted_profiles)
    /\ NextSubjectTurn # 0
    /\ LET profile == MappedProfile
           n == NextSubjectTurn
           subject_key == OrderedSubjectKeys(profile)[n]
           quota == IF n = subject_turn THEN subject_hours_quota ELSE QuotaAt(profile, n)
           at == OpenItem(subject_key)
           demand_item == demand_items_by_subject[subject_key][at]
           subject_hours_remaining == demand_item.remaining_hours
           allocated_hours == ClassHoursGiven(quota, subject_hours_remaining)
           class_key == demand_item.class_key
           earlier == IF class_key \in DOMAIN class_allocations
                      THEN class_allocations[class_key] ELSE <<>>
       IN /\ demand_items_by_subject' =
                [demand_items_by_subject EXCEPT ![subject_key][at].remaining_hours =
                    subject_hours_remaining - allocated_hours]
          /\ subject_hours_quota' = quota - allocated_hours
          /\ subject_turn' = n
          /\ class_allocations' =
                Put(class_allocations, class_key,
                    Append(earlier,
                           [subject_key |-> subject_key,
                            subject_code |-> demand_item.subject_code,
                            subject_name |-> demand_item.subject_name,
                            allocated_hours |-> allocated_hours,
                            class_status |-> demand_item.class_status]))
          /\ assignment_rows' =
                Append(assignment_rows,
                       [teacher_id |-> profile.teacher_id,
                        teacher_name |-> profile.teacher_name,
                        class_label |-> demand_item.class_label,
                        class_status |-> demand_item.class_status,
                        subject_code |-> demand_item.subject_code,
                        subject_name |-> demand_item.subject_name,
                        allocated_hours |-> allocated_hours,
                        coverage_type |->
                            IF subject_key \in Range(profile.support_subject_keys)
                            THEN "Support" ELSE "Primary"])
          /\ reporting_context' =
                ContextAfterAssignment(reporting_context, sorted_profiles[profile_turn],
                                       subject_key, allocated_hours)
    /\ UNCHANGED <<inputVars, earlier_run, pc, demandVars, allocVars, poolVars, sorted_profiles,
                   profile_turn, teacher_matrix_rows, class_allocation_data>>

\* subject_name_by_key.get(subject_key, subject_key.title()) of 1054-1063
SubjectLabel(subject_key) ==
    LET named == {i \in 1..Len(subjects) :
                    /\ _normalize_grade_label(DecimalStr(subjects[i].grade)) # ""
                    /\ subjects[i].weekly_hours > 0
                    /\ _build_subject_identity(subjects[i].subject_name,
                                               StripUpper(subjects[i].subject_code))[1]
                          = subject_key}
    IN subjects[CHOOSE i \in named : \A j \in named : i <= j].subject_name

\* the matrix row of a profile (1034-1067)
TeacherMatrixRow(profile, allocations) ==
    LET Sorted(class_key) ==
            SortByKeys(allocations[class_key],
                       [i \in 1..Len(allocations[class_key]) |->
                           << -allocations[class_key][i].allocated_hours,
                              StrRank(allocations[class_key][i].subject_code) >>])
    IN [teacher_id |-> profile.teacher_id,
        teacher_name |-> profile.teacher_name,
        expected_allocated_hours |-> profile.allocated_hours,
        remaining_capacity_hours |-> profile.remaining_capacity_hours,
        primary_subject_label |->
            [i \in 1..Len(profile.subject_keys) |->
                CollapseWhitespace(SubjectLabel(profile.subject_keys[i]))],
        support_subject_label |->
            [i \in 1..Len(profile.support_subject_keys) |->
                CollapseWhitespace(SubjectLabel(profile.support_subject_keys[i]))],
        class_cells |->
            [class_key \in DOMAIN allocations |->
                [i \in 1..Len(allocations[class_key]) |->
                    <<Sorted(class_key)[i].subject_code, Sorted(class_key)[i].allocated_hours>>]],
        class_fill_subject_keys |->
            [class_key \in DOMAIN allocations |-> Sorted(class_key)[1].subject_key]]

\* the end of a profile's iteration of the loop of 974 (1034-1067)
FinishTeacherMapping ==
    /\ pc = "project"
    /\ profile_turn <= Len(sorted_profiles)
    /\ NextSubjectTurn = 0
    /\ teacher_matrix_rows' =
          Append(teacher_matrix_rows, TeacherMatrixRow(MappedProfile, class_allocations))
    /\ profile_turn' = profile_turn + 1
    /\ subject_turn' = 1
    /\ subject_hours_quota' =
          IF profile_turn < Len(sorted_profiles)
          THEN QuotaAt(reporting_context.teacher_profiles[sorted_profiles[profile_turn + 1]], 1)
          ELSE 0
    /\ class_allocations' = EmptyDict
    /\ UNCHANGED <<inputVars, earlier_run, pc, demandVars, allocVars, poolVars, reporting_context,
                   demand_items_by_subject, sorted_profiles, assignment_rows,
                   class_allocation_data>>

\* unassigned_rows (1077-1097)
UnassignedRows ==
    LET keys == SortedSet(DOMAIN demand_items_by_subject, LAMBDA k : <<StrRank(k)>>)
        Collect[n \in 0..Len(keys)] ==
            IF n = 0 THEN <<>>
            ELSE Collect[n - 1]
                    \o SelectSeq(demand_items_by_subject[keys[n]],
                                 LAMBDA item : item.remaining_hours > 0)
        open == Collect[Len(keys)]
        rows == [i \in 1..Len(open) |->
                    [class_label |-> open[i].class_label,
                     class_status |-> open[i].class_status,
                     subject_code |-> open[i].subject_code,
                     subject_name |-> open[i].subject_name,
                     remaining_hours |-> open[i].remaining_hours]]
    IN SortByKeys(rows, [i \in 1..Len(rows) |->
                            <<StrRank(rows[i].class_label), StrRank(rows[i].subject_code)>>])

\* the sorts and the return of 1069-1104
FinishClassMapping ==
    /\ pc = "project"
    /\ profile_turn > Len(sorted_profiles)
    /\ class_allocation_data' =
          [class_rows |-> class_allocation_data.class_rows,
           teacher_matrix_rows |-> teacher_matrix_rows,
           assignment_rows |->
              SortByKeys(assignment_rows,
                         [i \in 1..Len(assignment_rows) |->
                             << StrRank(assignment_rows[i].teacher_name),
                                StrRank(assignment_rows[i].class_label),
                                StrRank(assignment_rows[i].subject_code) >>]),
           unassigned_rows |-> UnassignedRows]
    /\ pc' = "done"
    /\ UNCHANGED <<inputVars, earlier_run, demandVars, allocVars, poolVars, reporting_context,
                   demand_items_by_subject, sorted_profiles, profile_turn, subject_turn,
                   subject_hours_quota, class_allocations, teacher_matrix_rows,
                   assignment_rows>>

Init ==
    InitOf(SubLists(SubjectCatalog, MaxSubjects),
           SubLists(SectionCatalog, MaxSections),
           SubLists(TeacherCatalog, MaxTeachers))

InitDemand ==
    InitOf(SubLists(DemandSubjectCatalog, MaxSubjects),
           SubLists(DemandSectionCatalog, MaxDemandSections),
           SubLists(DemandTeacherCatalog, MaxDemandTeachers))

InitLinks ==
    InitOf(SubLists(LinkSubjectCatalog, MaxSubjects),
           SubLists(SectionCatalog, MaxSections),
           SubLists(LinkTeacherCatalog, MaxTeachers))

Next ==
    \/ BuildDemand
    \/ BuildProfiles
    \/ AllocateHours
    \/ FinishTeacher
    \/ ResolveComponent
    \/ ResolveIndependent
    \/ AssembleReport
    \/ PrepareClassMapping
    \/ AssignClassHours
    \/ FinishTeacherMapping
    \/ FinishClassMapping

Spec == Init /\ [][Next]_vars

SpecDemand == InitDemand /\ [][Next]_vars

SpecLinks == InitLinks /\ [][Next]_vars

InitGaps ==
    InitOf(LongSubLists(GapSubjectCatalog, MinGapSubjects),
           SubLists(SectionCatalog, MaxSections),
           SubLists(TeacherCatalog, MaxGapTeachers))

SpecGaps == InitGaps /\ [][Next]_vars

InitSections ==
    InitOf(SubLists(SubjectCatalog, MaxSubjects),
           SubLists(OddSectionCatalog, MaxOddSections),
           SubLists(TeacherCatalog, MaxOddTeachers))

SpecSections == InitSections /\ [][Next]_vars

\* the lists that hold the elements of list in another order, list itself included
Reorderings(list) ==
    {[i \in 1..Len(list) |-> list[order[i]]] :
        order \in {o \in [1..Len(list) -> 1..Len(list)] :
                      \A i, j \in 1..Len(list) : o[i] = o[j] => i = j}}

\* what a run of the allocator and the resolver decides: the allocation breakdown of
\* every teacher, the remaining hours and the additional teachers of every subject
Outcome ==
    [breakdowns |-> {<<teacher_profiles[i].teacher.id, teacher_profiles[i].allocation_breakdown>> :
                        i \in 1..Len(teacher_profiles)},
     remaining |-> remaining_hours_by_subject,
     additional |-> [key \in DOMAIN subject_demand_map |->
                        Get(subject_additional_teachers_map, key)]]

\* the caller keeps the outcome of a finished run and calls the engine again on the
\* same records, each list in some order: the state at the entry of
\* _build_reporting_context again
RunAgain ==
    /\ pc = "done"
    /\ earlier_run = NoRun
    /\ earlier_run' = [ran |-> TRUE, subjects |-> subjects,
                       planning_sections |-> planning_sections, teachers |-> teachers,
                       subject_demand_map |-> subject_demand_map, outcome |-> Outcome]
    /\ subjects' \in Reorderings(subjects)
    /\ planning_sections' \in Reorderings(planning_sections)
    /\ teachers' \in Reorderings(teachers)
    /\ db_allocations' = db_allocations
    /\ pc' = "demand"
    /\ sections_by_grade' = ZeroByGrade
    /\ current_sections_by_grade' = ZeroByGrade
    /\ new_sections_by_grade' = ZeroByGrade
    /\ subject_demand_map' = EmptyDict
    /\ required_by_grade' = [total |-> ZeroByGrade, current |-> ZeroByGrade, new |-> ZeroByGrade]
    /\ teacher_profiles' = <<>>
    /\ remaining_hours_by_subject' = EmptyDict
    /\ allocation_sequence' = <<>>
    /\ turn' = 1
    /\ remaining_capacity' = REPORT_STANDARD_MAX_HOURS
    /\ allocation_breakdown' = EmptyDict
    /\ visited_rule_subjects' = {}
    /\ pooled_subject_keys' = {}
    /\ subject_additional_teachers_map' = EmptyDict
    /\ subject_additional_teachers_note_map' = EmptyDict
    /\ total_additional_teachers_needed' = 0
    /\ reporting_context' = NoContext
    /\ demand_items_by_subject' = EmptyDict
    /\ sorted_profiles' = <<>>
    /\ profile_turn' = 1
    /\ subject_turn' = 1
    /\ subject_hours_quota' = 0
    /\ class_allocations' = EmptyDict
    /\ teacher_matrix_rows' = <<>>
    /\ assignment_rows' = <<>>
    /\ class_allocation_data' = NoClassData

InitOrder ==
    InitOf(SubLists(OrderSubjectCatalog, MaxSubjects),
           SubLists(SectionCatalog, MaxSections),
           SubLists(OrderTeacherCatalog, MaxTeachers))

NextOrder == Next \/ RunAgain

SpecOrder == InitOrder /\ [][NextOrder]_vars

----------------------------------------------------------------------------
(* Properties *)

Started == pc \notin {"demand", "profiles"}

SubjectKeys == DOMAIN subject_demand_map

\* hours of subject key in all allocation breakdowns: the finished profiles and
\* the breakdown of the turn in progress
AllocatedTo(key) ==
    SumSeq([i \in 1..Len(teacher_profiles) |->
                Get(teacher_profiles[i].allocation_breakdown, key)])
    + Get(allocation_breakdown, key)

\* hours of subject key in the allocation breakdowns of the exported profiles
ReportedAllocatedTo(key) ==
    SumSeq([i \in 1..Len(reporting_context.teacher_profiles) |->
                Get(reporting_context.teacher_profiles[i].allocation_breakdown, key)])

\* C1: at every step of the allocator and in the final subject rows, for every subject,
\* required_hours = allocated_hours + remaining_hours, allocated_hours being the sum
\* of the subject's entries in all teachers' allocation breakdowns
C1_RequiredIsAllocatedPlusRemaining ==
    Started =>
        /\ \A key \in SubjectKeys :
              subject_demand_map[key].required_hours =
                  AllocatedTo(key) + Get(remaining_hours_by_subject, key)
        /\ \A r \in 1..Len(reporting_context.subject_rows) :
              LET row == reporting_context.subject_rows[r]
              IN /\ row.required_hours = row.allocated_hours + row.remaining_hours
                 /\ row.allocated_hours = ReportedAllocatedTo(row.subject_key)

\* the report has a row of a subject that two teachers were allocated to
C1_Witness ==
    /\ pc = "classes"
    /\ \E r \in 1..Len(reporting_context.subject_rows) :
          LET key == reporting_context.subject_rows[r].subject_key
          IN /\ reporting_context.subject_rows[r].allocated_hours > 0
             /\ \E i, j \in 1..Len(reporting_context.teacher_profiles) :
                   /\ i # j
                   /\ Get(reporting_context.teacher_profiles[i].allocation_breakdown, key) > 0
                   /\ Get(reporting_context.teacher_profiles[j].allocation_breakdown, key) > 0

\* C2: for every teacher, during the turn and in the final profile, the sum of the
\* allocation breakdown is at most the capacity of the turn, and allocated_hours +
\* remaining_capacity_hours is that capacity
C2_BreakdownWithinCapacity ==
    Started =>
        /\ pc = "allocate" =>
              /\ SumValues(allocation_breakdown) <= TeacherCapacity(CurrentProfile)
              /\ SumValues(allocation_breakdown) + remaining_capacity
                    = TeacherCapacity(CurrentProfile)
        /\ \A i \in 1..Len(teacher_profiles) :
              LET profile == teacher_profiles[i]
              IN /\ SumValues(profile.allocation_breakdown) <= TeacherCapacity(profile)
                 /\ profile.allocated_hours = SumValues(profile.allocation_breakdown)
                 /\ profile.allocated_hours + profile.remaining_capacity_hours
                       = TeacherCapacity(profile)
        /\ \A i \in 1..Len(reporting_context.teacher_profiles) :
              LET profile == reporting_context.teacher_profiles[i]
              IN /\ SumValues(profile.allocation_breakdown) <= REPORT_STANDARD_MAX_HOURS
                 /\ profile.allocated_hours = SumValues(profile.allocation_breakdown)
                 /\ profile.allocated_hours + profile.remaining_capacity_hours
                       = REPORT_STANDARD_MAX_HOURS

C2_Witness ==
    /\ pc = "pool"
    /\ \E i, j \in 1..Len(teacher_profiles) :
          /\ teacher_profiles[i].allocated_hours = REPORT_STANDARD_MAX_HOURS
          /\ Cardinality(DOMAIN teacher_profiles[i].allocation_breakdown) = 2
          /\ teacher_profiles[j].allocated_hours > 0
          /\ teacher_profiles[j].remaining_capacity_hours > 0

\* C3: at every step of the allocator the remaining demand of every subject stays
\* within 0..required_hours
C3_RemainingWithinRequired ==
    Started =>
        \A key \in SubjectKeys :
            /\ DOMAIN remaining_hours_by_subject = SubjectKeys
            /\ remaining_hours_by_subject[key] >= 0
            /\ remaining_hours_by_subject[key] <= subject_demand_map[key].required_hours

\* a subject two teachers are eligible for has been brought to 0 by the second
C3_Witness ==
    /\ pc = "allocate"
    /\ \E key \in SubjectKeys :
          /\ remaining_hours_by_subject[key] = 0
          /\ Get(allocation_breakdown, key) > 0
          /\ \E i \in 1..Len(teacher_profiles) :
                Get(teacher_profiles[i].allocation_breakdown, key) > 0

\* the capacity the specification gives a teacher
ConfiguredCapacity(teacher) ==
    IF teacher.extra_hours_allowed THEN teacher.max_hours ELSE REPORT_STANDARD_MAX_HOURS

\* hours of demand the eligible subjects of the current teacher carried when the
\* turn began
DemandAtTurnStart ==
    SumSeq([i \in 1..Len(CurrentProfile.eligible_subject_keys) |->
               LET key == CurrentProfile.eligible_subject_keys[i]
               IN Get(remaining_hours_by_subject, key) + Get(allocation_breakdown, key)])

\* C8: a teacher with extra hours enabled and max_hours = M > 24 is allocated M hours
\* when the eligible subjects carry at least M hours of demand
C8_ExtraHoursRaiseCapacity ==
    (pc = "allocate" /\ ~LoopContinues) =>
        LET teacher == CurrentProfile.teacher
        IN (/\ teacher.extra_hours_allowed
            /\ teacher.max_hours > REPORT_STANDARD_MAX_HOURS
            /\ DemandAtTurnStart >= teacher.max_hours)
           => SumValues(allocation_breakdown) = ConfiguredCapacity(teacher)

\* the turn of a teacher with extra hours and max_hours 30 has ended at 24 hours with
\* demand of the primary subject left over
C8_Witness ==
    /\ pc = "allocate"
    /\ ~LoopContinues
    /\ CurrentProfile.teacher.extra_hours_allowed
    /\ CurrentProfile.teacher.max_hours > REPORT_STANDARD_MAX_HOURS
    /\ DemandAtTurnStart >= CurrentProfile.teacher.max_hours
    /\ SumValues(allocation_breakdown) = REPORT_STANDARD_MAX_HOURS

\* number of planning sections of a grade whose status is in statuses (all when {})
NumSections(grade_label, statuses) ==
    Cardinality({j \in 1..Len(planning_sections) :
        /\ _normalize_grade_label(planning_sections[j].grade_level) = grade_label
        /\ statuses = {} \/ StripLower(planning_sections[j].class_status) \in statuses})

\* the subject records that contribute to identity key
ValidRecords(key) ==
    {i \in 1..Len(subjects) :
        /\ _normalize_grade_label(DecimalStr(subjects[i].grade)) \in GradeLabels
        /\ subjects[i].weekly_hours > 0
        /\ NumSections(_normalize_grade_label(DecimalStr(subjects[i].grade)), {}) > 0
        /\ _build_subject_identity(subjects[i].subject_name, subjects[i].subject_code)[1] = key}

HoursOfRecords(records, statuses) ==
    SumSet([i \in records |->
               subjects[i].weekly_hours
                 * NumSections(_normalize_grade_label(DecimalStr(subjects[i].grade)), statuses)],
           records)

AllIdentities ==
    {_build_subject_identity(subjects[i].subject_name, subjects[i].subject_code)[1] :
        i \in 1..Len(subjects)}

\* C9: for every subject identity required_hours is the sum over its valid records of
\* weekly_hours times the number of sections of the record's grade, the current and
\* new hours are the same sums over the Current and the New sections, and an identity
\* without a valid record has no demand entry
C9_DemandIsHoursTimesSections ==
    pc # "demand" =>
        /\ SubjectKeys = {key \in AllIdentities : ValidRecords(key) # {}}
        /\ \A key \in SubjectKeys :
              /\ subject_demand_map[key].required_hours = HoursOfRecords(ValidRecords(key), {})
              /\ subject_demand_map[key].required_current_hours
                    = HoursOfRecords(ValidRecords(key), {"current"})
              /\ subject_demand_map[key].required_new_hours
                    = HoursOfRecords(ValidRecords(key), {"new"})

\* two records of one identity on two grades, beside a record without hours
C9_Witness ==
    /\ pc = "profiles"
    /\ "science" \in SubjectKeys
    /\ Cardinality(ValidRecords("science")) = 2
    /\ \E i \in 1..Len(subjects) : subjects[i].weekly_hours = 0
    /\ subject_demand_map["science"].required_current_hours > 0
    /\ subject_demand_map["science"].required_new_hours > 0

\* positions of allocation_sequence whose teacher has key as the single primary subject
PrimaryTurns(key) ==
    {t \in 1..Len(allocation_sequence) :
        teacher_profiles[allocation_sequence[t]].subject_keys = <<key>>}

EligibleTurns(key) ==
    {t \in 1..Len(allocation_sequence) :
        key \in Range(teacher_profiles[allocation_sequence[t]].eligible_subject_keys)}

\* the k teachers of PrimaryTurns(key) are filled to 24 hours one after another
FilledInOrder(key) ==
    LET turns == PrimaryTurns(key)
        k == Cardinality(turns)
        demand == subject_demand_map[key].required_hours
        Earlier(t) == Cardinality({u \in turns : u < t})
    IN /\ SumSet([t \in turns |-> teacher_profiles[allocation_sequence[t]].allocated_hours],
                 turns)
            = Min(demand, REPORT_STANDARD_MAX_HOURS * k)
       /\ \A t \in turns :
             teacher_profiles[allocation_sequence[t]].allocated_hours
                = Min(REPORT_STANDARD_MAX_HOURS,
                      Max(demand - REPORT_STANDARD_MAX_HOURS * Earlier(t), 0))

NoSupportSubjects(key) ==
    \A t \in PrimaryTurns(key) :
        teacher_profiles[allocation_sequence[t]].support_subject_keys = <<>>

Resolved == pc \notin {"demand", "profiles", "allocate", "pool"}

\* the connected component of a subject of the rule graph
ComponentOf(key) ==
    LET graph == RuleSubjectGraph
        order == CHOOSE o \in IterationOrders(DOMAIN graph) : TRUE
    IN Traverse(<<key>>, {}, {}, order, graph).component

RemainingOf(keys) == SumSet([k \in keys |-> remaining_hours_by_subject[k]], keys)

AdditionalTeachersOf(keys) ==
    SumSet([k \in keys |-> Get(subject_additional_teachers_map, k)], keys)

\* A and B are linked by the rule table, each lacks 1..23 hours, together at most 24
FractionalPair(a, b) ==
    /\ a \in DOMAIN RuleSubjectGraph
    /\ b \in RuleSubjectGraph[a]
    /\ remaining_hours_by_subject[a] \in 1..(REPORT_STANDARD_MAX_HOURS - 1)
    /\ remaining_hours_by_subject[b] \in 1..(REPORT_STANDARD_MAX_HOURS - 1)
    /\ remaining_hours_by_subject[a] + remaining_hours_by_subject[b]
          <= REPORT_STANDARD_MAX_HOURS

\* the component of a counts one additional teacher, in the map and in the total
CountsOneTeacher(a) ==
    /\ AdditionalTeachersOf(ComponentOf(a)) = 1
    /\ total_additional_teachers_needed
          = 1 + AdditionalTeachersOf(SubjectKeys \ ComponentOf(a))

\* C4 as stated: two rule-linked subjects that each lack 1..23 hours and together at
\* most 24 make their component count 1 additional teacher
C4_Original ==
    Resolved => \A a, b \in SubjectKeys : FractionalPair(a, b) => CountsOneTeacher(a)

\* C4 (amended): the same, when no third subject of the component lacks hours
C4_PooledPairCountsOnce ==
    Resolved =>
        \A a, b \in SubjectKeys :
            (FractionalPair(a, b) /\ RemainingOf(ComponentOf(a) \ {a, b}) = 0)
            => CountsOneTeacher(a)

C4_Witness ==
    /\ Resolved
    /\ \E a, b \in SubjectKeys :
          /\ FractionalPair(a, b)
          /\ RemainingOf(ComponentOf(a) \ {a, b}) = 0
          /\ CountsOneTeacher(a)

NoteOf(key) ==
    IF key \in DOMAIN subject_additional_teachers_note_map
    THEN subject_additional_teachers_note_map[key]
    ELSE NoNote

\* key carries no count and a note that names the anchor
CountedInAnchor(key, anchor) ==
    /\ Get(subject_additional_teachers_map, key) = 0
    /\ NoteOf(key) # NoNote
    /\ NoteOf(key).names = <<subject_demand_map[anchor].subject_name>>

OneAnchorCarries(component) ==
    Cardinality({k \in component :
        Get(subject_additional_teachers_map, k)
           = CeilDiv(RemainingOf(component), REPORT_STANDARD_MAX_HOURS)}) = 1

\* C5 as stated: in a component with unmet demand one subject carries
\* ceil(remaining of the component / 24) and every other subject of the component has
\* 0 and a note naming the anchor
C5_Original ==
    Resolved =>
        \A key \in DOMAIN RuleSubjectGraph :
            LET component == ComponentOf(key)
            IN RemainingOf(component) > 0 =>
                 /\ OneAnchorCarries(component)
                 /\ \E anchor \in component :
                       \A other \in component \ {anchor} : CountedInAnchor(other, anchor)

\* C5 (amended): one subject with unmet demand carries the count; every other subject
\* of the component with unmet demand has 0 and a note naming the anchor; a subject of
\* the component without unmet demand has 0 and no note
C5_AnchorCarriesPooledCount ==
    Resolved =>
        \A key \in DOMAIN RuleSubjectGraph :
            LET component == ComponentOf(key)
            IN RemainingOf(component) > 0 =>
                 /\ OneAnchorCarries(component)
                 /\ \E anchor \in component :
                       /\ remaining_hours_by_subject[anchor] > 0
                       /\ \A other \in component \ {anchor} :
                             IF remaining_hours_by_subject[other] > 0
                             THEN CountedInAnchor(other, anchor)
                             ELSE /\ Get(subject_additional_teachers_map, other) = 0
                                  /\ NoteOf(other) = NoNote

\* english and social studies english both lack hours: 2 teachers on english
C5_Witness ==
    /\ Resolved
    /\ "english" \in DOMAIN RuleSubjectGraph
    /\ "social studies english" \in DOMAIN RuleSubjectGraph
    /\ remaining_hours_by_subject["social studies english"] > 0
    /\ subject_additional_teachers_map["english"] = 2
    /\ CountedInAnchor("social studies english", "english")

\* C6: the result of every pooling step is the same under every iteration order of the
\* sets it walks (the neighbours of a subject, the subjects of a component), so a run
\* is a function of its inputs
C6_IterationOrderIrrelevant ==
    [][(pc = "pool" /\ pc' = "pool") =>
          \A order \in IterationOrders(DOMAIN RuleSubjectGraph) :
              LET result == PoolComponent(order, RuleSubjectGraph)
              IN /\ visited_rule_subjects' = result.visited
                 /\ pooled_subject_keys' = result.pooled
                 /\ subject_additional_teachers_map' = result.teachers_map
                 /\ subject_additional_teachers_note_map' = result.note_map
                 /\ total_additional_teachers_needed' = result.total]_vars

\* a component of three subjects that all lack hours has been pooled
C6_Witness ==
    /\ Resolved
    /\ "arabic" \in DOMAIN RuleSubjectGraph
    /\ Cardinality({k \in pooled_subject_keys : k \in ComponentOf("arabic")}) = 3

\* C7: no step of the engine or of the projector changes the subjects, sections,
\* teachers or allocation rows it was given, and no step of the class mapping projector
\* changes the reporting context it was given
C7_InputsAndContextUnchanged ==
    [][ /\ inputVars' = inputVars
        /\ pc \in {"classes", "project"} => reporting_context' = reporting_context ]_vars

\* the projector has returned after consuming hours of a profile and leaving a class
\* with hours unassigned
C7_Witness ==
    /\ pc = "done"
    /\ class_allocation_data.assignment_rows # <<>>
    /\ class_allocation_data.unassigned_rows # <<>>
    /\ reporting_context.teacher_profiles # <<>>

ContextBuilt == pc \in {"classes", "project", "done"}

\* C11: in the reporting context a subject row with required_hours = 0 has
\* coverage_percentage = 0, the branch-wide coverage is 0 when the total required hours
\* are 0, every percentage is a number within 0..100, and the gap rows hold only
\* subjects with remaining_hours > 0
C11_PercentagesGuarded ==
    ContextBuilt =>
        /\ \A r \in 1..Len(reporting_context.subject_rows) :
              LET row == reporting_context.subject_rows[r]
              IN /\ row.coverage_percentage \in 0..100
                 /\ row.required_hours = 0 => row.coverage_percentage = 0
                 /\ row.remaining_hours = 0 =>
                       \A g \in 1..Len(reporting_context.gap_rows) :
                           reporting_context.gap_rows[g].row.subject_key # row.subject_key
        /\ reporting_context.summary.coverage_percentage \in 0..100
        /\ reporting_context.summary.total_required_hours = 0 =>
              reporting_context.summary.coverage_percentage = 0
        /\ \A g \in 1..Len(reporting_context.gap_rows) :
              /\ reporting_context.gap_rows[g].row.remaining_hours > 0
              /\ reporting_context.gap_rows[g].gap_chart_pct \in 1..1000

\* a report for subjects and teachers of a branch none of whose sections is of a grade
\* of the subjects: nothing is required
C11_Witness ==
    /\ pc = "classes"
    /\ subjects # <<>>
    /\ teachers # <<>>
    /\ planning_sections # <<>>
    /\ reporting_context.summary.total_required_hours = 0
    /\ reporting_context.summary.coverage_percentage = 0

\* an iteration of the while loop of the current turn that grants hours
GrantStep ==
    /\ pc = "allocate"
    /\ pc' = "allocate"
    /\ turn' = turn
    /\ allocation_breakdown' # allocation_breakdown

\* the position of a run in its sequence of stages, counted from the return
StagesLeft ==
    CASE pc = "demand" -> 7 [] pc = "profiles" -> 6 [] pc = "allocate" -> 5
      [] pc = "pool" -> 4 [] pc = "report" -> 3 [] pc = "classes" -> 2
      [] pc = "project" -> 1 [] pc = "done" -> 0

\* the work left in the loops of the stage: turns and hours of demand in the allocator,
\* rule subjects to visit in the resolver, profiles and hours of class demand in the
\* projector
WorkLeft ==
    CASE pc = "allocate" ->
            (Len(allocation_sequence) + 1 - turn)
            + SumValues(remaining_hours_by_subject)
      [] pc = "pool" -> Cardinality(DOMAIN RuleSubjectGraph \ visited_rule_subjects)
      [] pc = "project" ->
            (Len(sorted_profiles) + 1 - profile_turn)
            + SumSet([k \in DOMAIN demand_items_by_subject |->
                         SumSeq([i \in 1..Len(demand_items_by_subject[k]) |->
                                    demand_items_by_subject[k][i].remaining_hours])],
                     DOMAIN demand_items_by_subject)
      [] OTHER -> 0

\* C12: every granting iteration of a teacher's loop gives hours to an eligible subject
\* that the turn has not served yet and brings that subject's remaining demand or the
\* teacher's remaining capacity to 0, so a turn has at most as many granting iterations
\* as the teacher has eligible subjects; every step of a run leaves fewer stages or,
\* in the same stage, less work, so no run goes on for ever; and the allocator can
\* always take a step, whatever demand is left
C12_AllocatorTerminates ==
    /\ [][GrantStep =>
            \E key \in Range(CurrentProfile.eligible_subject_keys) :
                /\ key \notin DOMAIN allocation_breakdown
                /\ DOMAIN allocation_breakdown' = DOMAIN allocation_breakdown \cup {key}
                /\ \/ remaining_hours_by_subject'[key] = 0
                   \/ remaining_capacity' = 0
                /\ Cardinality(DOMAIN allocation_breakdown')
                      <= Len(CurrentProfile.eligible_subject_keys)]_vars
    /\ [][ /\ WorkLeft \in 0..9999
           /\ StagesLeft' * 10000 + WorkLeft' < StagesLeft * 10000 + WorkLeft ]_vars
    /\ [](pc = "allocate" => ENABLED (AllocateHours \/ FinishTeacher))

\* a turn that ended after as many grants as the teacher has eligible subjects, two,
\* out of capacity and with demand of the support subject left
C12_Witness ==
    /\ pc = "allocate"
    /\ ~LoopContinues
    /\ Len(CurrentProfile.eligible_subject_keys) = 2
    /\ Cardinality(DOMAIN allocation_breakdown) = 2
    /\ remaining_capacity = 0
    /\ \E key \in Range(CurrentProfile.support_subject_keys) :
          Get(remaining_hours_by_subject, key) > 0

\* C13: a granting iteration serves a support subject only when no primary subject of
\* the teacher has remaining demand, and in the result every teacher with
\* support_allocated_hours > 0 has primary subjects, all with remaining_hours = 0
C13_PrimaryBeforeSupport ==
    /\ [][GrantStep =>
            \A key \in DOMAIN allocation_breakdown' :
                (/\ Get(allocation_breakdown', key) > Get(allocation_breakdown, key)
                 /\ key \notin Range(CurrentProfile.subject_keys))
                => /\ key \in Range(CurrentProfile.support_subject_keys)
                   /\ \A primary \in Range(CurrentProfile.subject_keys) :
                         Get(remaining_hours_by_subject, primary) = 0]_vars
    /\ [](ContextBuilt =>
            \A i \in 1..Len(reporting_context.teacher_profiles) :
                LET profile == reporting_context.teacher_profiles[i]
                IN profile.support_allocated_hours > 0 =>
                     /\ profile.subject_keys # <<>>
                     /\ \A r \in 1..Len(reporting_context.subject_rows) :
                           reporting_context.subject_rows[r].subject_key
                               \in Range(profile.subject_keys)
                           => reporting_context.subject_rows[r].remaining_hours = 0)

\* a teacher of the result taught the whole primary subject and then hours of a
\* support subject
C13_Witness ==
    /\ ContextBuilt
    /\ \E i \in 1..Len(reporting_context.teacher_profiles) :
          /\ reporting_context.teacher_profiles[i].primary_allocated_hours > 0
          /\ reporting_context.teacher_profiles[i].support_allocated_hours > 0

AllocatorFinished == pc \notin {"demand", "profiles", "allocate"}

\* C14: when the allocator has finished, no teacher has remaining_capacity_hours > 0
\* while a primary or support subject of the teacher has remaining demand > 0
C14_GreedyExhaustive ==
    AllocatorFinished =>
        \A i \in 1..Len(teacher_profiles) :
            teacher_profiles[i].remaining_capacity_hours > 0 =>
                \A key \in Range(teacher_profiles[i].eligible_subject_keys) :
                    Get(remaining_hours_by_subject, key) = 0

\* a teacher with a support subject ends with hours of both and capacity to spare,
\* while another subject stays short of hours
C14_Witness ==
    /\ pc = "pool"
    /\ \E i \in 1..Len(teacher_profiles) :
          /\ teacher_profiles[i].remaining_capacity_hours > 0
          /\ teacher_profiles[i].support_allocated_hours > 0
    /\ \E key \in SubjectKeys : Get(remaining_hours_by_subject, key) > 0

\* the profile whose turn is the t-th
ProfileOfTurn(t) == teacher_profiles[allocation_sequence[t]]

\* the order of the turns: a primary subject first, then the display name, then the id
TurnPrecedes(p, q) ==
    \/ p.subject_keys # <<>> /\ q.subject_keys = <<>>
    \/ /\ (p.subject_keys = <<>>) = (q.subject_keys = <<>>)
       /\ \/ StrRank(p.name) < StrRank(q.name)
          \/ p.name = q.name /\ p.teacher.id < q.teacher.id

\* C15: the turns follow the total order (teachers with a primary subject first, then
\* display name, then teacher id); a step of the allocator writes the profile of the
\* turn in progress only and the turns advance one by one; of two teachers with the
\* same primary subject the one whose turn is earlier receives at least as many hours
\* of it
C15_TurnsInTotalOrder ==
    /\ [](Started =>
            /\ Len(allocation_sequence) = Len(teachers)
            /\ \A t, u \in 1..Len(allocation_sequence) :
                  t < u => TurnPrecedes(ProfileOfTurn(t), ProfileOfTurn(u))
            /\ \A t, u \in 1..Len(allocation_sequence) :
                  (/\ t < u
                   /\ (pc = "allocate" => u < turn)
                   /\ ProfileOfTurn(t).subject_keys # <<>>
                   /\ ProfileOfTurn(t).subject_keys = ProfileOfTurn(u).subject_keys)
                  => Get(ProfileOfTurn(t).allocation_breakdown, ProfileOfTurn(t).subject_keys[1])
                       >= Get(ProfileOfTurn(u).allocation_breakdown,
                              ProfileOfTurn(u).subject_keys[1]))
    /\ [][pc = "allocate" =>
            /\ turn' \in {turn, turn + 1}
            /\ \A i \in 1..Len(teacher_profiles) :
                  i # allocation_sequence[turn] => teacher_profiles'[i] = teacher_profiles[i]
            /\ \A t \in (turn + 1)..Len(allocation_sequence) :
                  ProfileOfTurn(t).allocation_breakdown = EmptyDict]_vars

\* two teachers of the same primary subject: the earlier turn received 24 hours, the
\* later one the 16 that were left
C15_Witness ==
    /\ pc = "pool"
    /\ Len(allocation_sequence) = 2
    /\ StrRank(ProfileOfTurn(1).name) < StrRank(ProfileOfTurn(2).name)
    /\ ProfileOfTurn(1).subject_keys # <<>>
    /\ ProfileOfTurn(1).subject_keys = ProfileOfTurn(2).subject_keys
    /\ ProfileOfTurn(1).allocated_hours = REPORT_STANDARD_MAX_HOURS
    /\ ProfileOfTurn(2).allocated_hours \in 1..(REPORT_STANDARD_MAX_HOURS - 1)

\* the subjects of a component that carry additional teachers
AnchorsOf(component) ==
    {k \in component : Get(subject_additional_teachers_map, k) > 0}

\* the anchor the rule of the claim selects among candidates: the first key of the
\* priority list among them, else the one with the greatest remaining hours, ties by name
SelectedAnchor(candidates) ==
    LET listed == {i \in 1..Len(CROSS_SUBJECT_HIRING_ANCHOR_PRIORITY) :
                      CROSS_SUBJECT_HIRING_ANCHOR_PRIORITY[i] \in candidates}
    IN IF listed # {}
       THEN CROSS_SUBJECT_HIRING_ANCHOR_PRIORITY[CHOOSE i \in listed : \A j \in listed : i <= j]
       ELSE CHOOSE k \in candidates :
               \A other \in candidates \ {k} :
                   \/ remaining_hours_by_subject[k] > remaining_hours_by_subject[other]
                   \/ /\ remaining_hours_by_subject[k] = remaining_hours_by_subject[other]
                      /\ SubjectNameRank(k) < SubjectNameRank(other)

\* C16 as stated: the anchor of a component with unmet demand is the first key of the
\* priority list present in the component, else the subject with the greatest remaining
\* hours; english is the anchor of every component with unmet demand it belongs to
C16_Original ==
    Resolved =>
        \A key \in DOMAIN RuleSubjectGraph :
            LET component == ComponentOf(key)
            IN RemainingOf(component) > 0 =>
                 /\ AnchorsOf(component) = {SelectedAnchor(component)}
                 /\ "english" \in component => AnchorsOf(component) = {"english"}

\* what the code does instead: the candidates are the subjects of the component that
\* have remaining hours
AnchorAmongLackingSubjects ==
    Resolved =>
        \A key \in DOMAIN RuleSubjectGraph :
            LET component == ComponentOf(key)
                lacking == {k \in component : remaining_hours_by_subject[k] > 0}
            IN RemainingOf(component) > 0 =>
                 AnchorsOf(component) = {SelectedAnchor(lacking)}

\* english is fully taught and social studies english lacks hours: the additional
\* teacher is counted on social studies english
C16_Witness ==
    /\ Resolved
    /\ "english" \in DOMAIN RuleSubjectGraph
    /\ "social studies english" \in ComponentOf("english")
    /\ remaining_hours_by_subject["english"] = 0
    /\ remaining_hours_by_subject["social studies english"] > 0
    /\ AnchorsOf(ComponentOf("english")) = {"social studies english"}

\* key is linked by the rule table to another subject that has demand
HasRuleEdge(key) ==
    \E p \in DOMAIN CROSS_SUBJECT_SUPPORT_RULES :
        \E q \in CROSS_SUBJECT_SUPPORT_RULES[p] :
            /\ _normalize_subject_family_key(p) \in SubjectKeys
            /\ _normalize_subject_family_key(q) \in SubjectKeys
            /\ _normalize_subject_family_key(p) # _normalize_subject_family_key(q)
            /\ key \in {_normalize_subject_family_key(p), _normalize_subject_family_key(q)}

\* C17: a subject without a rule edge to another subject of the demand map has
\* additional_teachers_needed = ceil(remaining_hours / 24), which is 0 exactly when the
\* remaining hours are 0, and no pooling note, in the maps and in its subject row
C17_IndependentSubjects ==
    Resolved =>
        /\ \A key \in SubjectKeys :
              ~HasRuleEdge(key) =>
                 LET needed == Get(subject_additional_teachers_map, key)
                     remaining_hours == remaining_hours_by_subject[key]
                 IN /\ needed >= 0
                    /\ REPORT_STANDARD_MAX_HOURS * needed >= remaining_hours
                    /\ REPORT_STANDARD_MAX_HOURS * needed
                          < remaining_hours + REPORT_STANDARD_MAX_HOURS
                    /\ (needed = 0) = (remaining_hours = 0)
                    /\ NoteOf(key) = NoNote
        /\ \A r \in 1..Len(reporting_context.subject_rows) :
              LET row == reporting_context.subject_rows[r]
              IN ~HasRuleEdge(row.subject_key) =>
                    /\ REPORT_STANDARD_MAX_HOURS * row.additional_teachers_needed
                          >= row.remaining_hours
                    /\ REPORT_STANDARD_MAX_HOURS * row.additional_teachers_needed
                          < row.remaining_hours + REPORT_STANDARD_MAX_HOURS
                    /\ row.additional_teachers_note = NoNote

\* english is a key of the rule table whose support subject has no demand, and math
\* is no key of it: each lacks more than 24 hours and counts 2 teachers of its own
C17_Witness ==
    /\ ContextBuilt
    /\ "english" \in SubjectKeys
    /\ "math" \in SubjectKeys
    /\ ~HasRuleEdge("english")
    /\ remaining_hours_by_subject["english"] > REPORT_STANDARD_MAX_HOURS
    /\ Get(subject_additional_teachers_map, "english") = 2
    /\ remaining_hours_by_subject["math"] > REPORT_STANDARD_MAX_HOURS
    /\ Get(subject_additional_teachers_map, "math") = 2

\* the subjects with demand that the rule table links to key, in either direction
RuleNeighbours(key) ==
    {other \in SubjectKeys \ {key} :
        \E p \in DOMAIN CROSS_SUBJECT_SUPPORT_RULES :
            \E q \in CROSS_SUBJECT_SUPPORT_RULES[p] :
                {key, other}
                   = {_normalize_subject_family_key(p), _normalize_subject_family_key(q)}}

\* C18: the support subjects of a teacher are the subjects with demand that the rule
\* table links to the primary subject in either direction, the edges of the rule graph
C18_SupportIsUndirected ==
    Started =>
        \A i \in 1..Len(teacher_profiles) :
            LET profile == teacher_profiles[i]
            IN profile.subject_keys # <<>> =>
                  /\ Range(profile.support_subject_keys)
                        = RuleNeighbours(profile.subject_keys[1])
                  /\ profile.subject_keys[1] \in DOMAIN RuleSubjectGraph =>
                        Range(profile.support_subject_keys)
                           = RuleSubjectGraph[profile.subject_keys[1]]

\* a teacher of social studies english, with english in demand, has no support subject
C18_Witness ==
    /\ Started
    /\ "english" \in SubjectKeys
    /\ \E i \in 1..Len(teacher_profiles) :
          /\ teacher_profiles[i].subject_keys = <<"social studies english">>
          /\ teacher_profiles[i].support_subject_keys = <<>>

\* the subject key an allocation record or a legacy code resolves to, "" when the
\* code names no subject with demand
ResolvedKey(code) ==
    LET idx == SubjectIndexByCode(code)
        key == _build_subject_identity(subjects[idx].subject_name, code)[1]
    IN IF idx = 0 THEN ""
       ELSE IF key \in SubjectKeys THEN key ELSE ""

\* the allocation records of a teacher
RecordsOf(teacher) ==
    {n \in 1..Len(db_allocations) :
        teacher.id # 0 /\ db_allocations[n].teacher_id = teacher.id}

\* the subject links of a teacher that resolve: the records, and the legacy code when
\* no record resolves
LinkKeys(teacher) ==
    LET of_records == {ResolvedKey(db_allocations[n].subject_code) : n \in RecordsOf(teacher)}
                         \ {""}
    IN IF of_records # {} THEN of_records
       ELSE IF teacher.id = 0 THEN {}
       ELSE {ResolvedKey(StripUpper(teacher.subject_code))} \ {""}

\* summed weekly hours of the records of a teacher that resolve to key
SummedWeeklyHours(teacher, key) ==
    LET records == {n \in RecordsOf(teacher) :
                       ResolvedKey(db_allocations[n].subject_code) = key}
    IN SumSet([n \in records |->
                  subjects[SubjectIndexByCode(db_allocations[n].subject_code)].weekly_hours],
              records)

\* key ranks before other as the primary subject of teacher
RanksBefore(teacher, key, other) ==
    LET hours == SummedWeeklyHours(teacher, key)
        other_hours == SummedWeeklyHours(teacher, other)
        required == subject_demand_map[key].required_hours
        other_required == subject_demand_map[other].required_hours
    IN \/ hours > other_hours
       \/ hours = other_hours /\ required > other_required
       \/ /\ hours = other_hours
          /\ required = other_required
          /\ SubjectNameRank(key) < SubjectNameRank(other)

\* C19: a teacher has at most one primary subject; it is the resolved link with the
\* greatest summed weekly hours, then the greater required hours, then the name; there
\* is one exactly when a link resolves to a subject of the demand map; and it is no
\* support subject
C19_SinglePrimarySubject ==
    Started =>
        \A i \in 1..Len(teacher_profiles) :
            LET profile == teacher_profiles[i]
                links == LinkKeys(profile.teacher)
            IN /\ Len(profile.subject_keys) <= 1
               /\ (profile.subject_keys # <<>>) = (links # {})
               /\ profile.subject_keys # <<>> =>
                     /\ profile.subject_keys[1] \in links
                     /\ \A other \in links \ {profile.subject_keys[1]} :
                           RanksBefore(profile.teacher, profile.subject_keys[1], other)
                     /\ profile.subject_keys[1] \notin Range(profile.support_subject_keys)

\* a teacher linked to chemistry (4 hours) and to physics on two grades (4 + 2 hours)
\* has physics as the primary subject
C19_Witness ==
    /\ Started
    /\ \E i \in 1..Len(teacher_profiles) :
          /\ "chemistry" \in LinkKeys(teacher_profiles[i].teacher)
          /\ teacher_profiles[i].subject_keys = <<"physics">>
          /\ teacher_profiles[i].primary_subject_basis_hours = 6

\* the subject keys the allocation records of a teacher resolve to
RecordKeys(teacher) ==
    {ResolvedKey(db_allocations[n].subject_code) : n \in RecordsOf(teacher)} \ {""}

\* C20: a teacher with allocation records has a primary subject only from those
\* records, also when none of them resolves; a teacher without records has the subject
\* of the legacy code as far as it resolves
C20_LegacyOnlyWithoutRecords ==
    Started =>
        \A i \in 1..Len(teacher_profiles) :
            LET profile == teacher_profiles[i]
                teacher == profile.teacher
            IN IF RecordsOf(teacher) # {}
               THEN Range(profile.subject_keys) \subseteq RecordKeys(teacher)
               ELSE Range(profile.subject_keys)
                       = {ResolvedKey(StripUpper(teacher.subject_code))} \ {""}

\* a teacher whose only allocation record names biology, which has no demand, has the
\* subject of the legacy code, chemistry, as the primary subject
C20_Witness ==
    /\ Started
    /\ \E i \in 1..Len(teacher_profiles) :
          /\ RecordsOf(teacher_profiles[i].teacher) # {}
          /\ RecordKeys(teacher_profiles[i].teacher) = {}
          /\ teacher_profiles[i].teacher.subject_code = "CHE5"
          /\ teacher_profiles[i].subject_keys = <<"chemistry">>

\* the test of 475 succeeds: a turn ends with more than 24 hours in its breakdown
OverflowGuardRuns ==
    /\ pc = "allocate"
    /\ ~LoopContinues
    /\ CurrentProfile.eligible_subject_keys # <<>>
    /\ SumValues(allocation_breakdown) > REPORT_STANDARD_MAX_HOURS

\* C21: the overflow guard is unreachable: the breakdown of a turn never sums to more
\* than 24, so the trimming branch never runs, the end of a turn stores the breakdown
\* as the loop left it and returns no hours, and the remaining demand of every subject
\* never rises during the allocator run
C21_OverflowGuardUnreachable ==
    /\ [](pc = "allocate" =>
             /\ SumValues(allocation_breakdown) <= REPORT_STANDARD_MAX_HOURS
             /\ ~OverflowGuardRuns)
    /\ [][pc = "allocate" =>
             /\ DOMAIN remaining_hours_by_subject' = DOMAIN remaining_hours_by_subject
             /\ \A key \in DOMAIN remaining_hours_by_subject :
                   remaining_hours_by_subject'[key] <= remaining_hours_by_subject[key]
             /\ (~LoopContinues /\ CurrentProfile.eligible_subject_keys # <<>>) =>
                   /\ remaining_hours_by_subject' = remaining_hours_by_subject
                   /\ teacher_profiles'[allocation_sequence[turn]].allocation_breakdown
                         = allocation_breakdown]_vars

\* a turn is about to end with a breakdown of exactly 24 hours over two subjects while
\* a subject of the teacher still lacks hours: the guard is evaluated at its boundary
C21_Witness ==
    /\ pc = "allocate"
    /\ ~LoopContinues
    /\ remaining_capacity = 0
    /\ SumValues(allocation_breakdown) = REPORT_STANDARD_MAX_HOURS
    /\ Cardinality(DOMAIN allocation_breakdown) = 2
    /\ \E key \in Range(CurrentProfile.eligible_subject_keys) :
          Get(remaining_hours_by_subject, key) > 0

\* the demand items of the projector, all subjects together
AllDemandItems ==
    UNION {Range(demand_items_by_subject[key]) : key \in DOMAIN demand_items_by_subject}

\* the hours the rows give to, or report for, the class and subject record of item
HoursOfItem(rows, item, field) ==
    SumSeq([r \in 1..Len(rows) |->
               IF /\ rows[r].class_label = item.class_label
                  /\ rows[r].subject_code = item.subject_code
               THEN rows[r][field] ELSE 0])

RowsOfItem(rows, item) ==
    {r \in 1..Len(rows) :
        rows[r].class_label = item.class_label /\ rows[r].subject_code = item.subject_code}

\* the weekly load of the subject record an item was built from
WeeklyLoadOf(item) ==
    LET records == {i \in 1..Len(subjects) :
                       /\ StripUpper(subjects[i].subject_code) = item.subject_code
                       /\ _normalize_grade_label(DecimalStr(subjects[i].grade))
                             = item.grade_label}
    IN subjects[CHOOSE i \in records : TRUE].weekly_hours

\* C22: for every demand item (class section, subject record), during the projection
\* and in its result, the hours of the item in the assignment rows plus its remaining
\* hours are the weekly load of the subject; the item never has more hours than that
\* load; and in the result the item has an unassigned row, holding its remaining hours,
\* exactly when these are > 0
C22_ItemHoursConserved ==
    pc \in {"project", "done"} =>
        \A item \in AllDemandItems :
            /\ item.required_hours = WeeklyLoadOf(item)
            /\ item.remaining_hours >= 0
            /\ HoursOfItem(assignment_rows, item, "allocated_hours") <= item.required_hours
            /\ HoursOfItem(assignment_rows, item, "allocated_hours") + item.remaining_hours
                  = item.required_hours
            /\ pc = "done" =>
                  LET data == class_allocation_data
                  IN /\ HoursOfItem(data.assignment_rows, item, "allocated_hours")
                           + HoursOfItem(data.unassigned_rows, item, "remaining_hours")
                        = item.required_hours
                     /\ HoursOfItem(data.unassigned_rows, item, "remaining_hours")
                           = item.remaining_hours
                     /\ Cardinality(RowsOfItem(data.unassigned_rows, item))
                           = IF item.remaining_hours > 0 THEN 1 ELSE 0

\* the result holds an item that teachers cover in part: it has assignment rows and an
\* unassigned row, and another item of the same subject that is covered in full
C22_Witness ==
    /\ pc = "done"
    /\ \E item, other \in AllDemandItems :
          /\ item.subject_key = other.subject_key
          /\ other.remaining_hours = 0
          /\ item.remaining_hours > 0
          /\ item.remaining_hours < item.required_hours
          /\ RowsOfItem(class_allocation_data.assignment_rows, item) # {}
          /\ RowsOfItem(class_allocation_data.unassigned_rows, item) # {}

\* the place of a demand item in the order (status, grade, section name)
ItemOrderKey(item) ==
    << StatusRank(item.class_status), _grade_sort_key(item.grade_label),
       StrRank(item.section_name) >>

ItemHasHours(item) == item.remaining_hours < item.required_hours

\* C23: at every point of the projection and in its result, the demand items of a
\* subject identity are held in the order (status, grade, section name), an item has
\* received hours only when every item of the identity earlier in that order is
\* exhausted, and so a New class has hours of a subject only when every Current class
\* item of it is fully covered; a consumption gives its hours to the first item of the
\* order that is not exhausted
C23_CurrentBeforeNew ==
    /\ [](pc \in {"project", "done"} =>
             \A key \in DOMAIN demand_items_by_subject :
                 LET items == demand_items_by_subject[key]
                 IN /\ \A i, j \in 1..Len(items) :
                          i < j => ~LexLess(ItemOrderKey(items[j]), ItemOrderKey(items[i]))
                    /\ \A i, j \in 1..Len(items) :
                          (ItemHasHours(items[j])
                              /\ LexLess(ItemOrderKey(items[i]), ItemOrderKey(items[j])))
                             => items[i].remaining_hours = 0
                    /\ \A i, j \in 1..Len(items) :
                          (items[j].class_status = "New" /\ ItemHasHours(items[j])
                              /\ items[i].class_status = "Current")
                             => items[i].remaining_hours = 0)
    /\ [][pc = "project" =>
             \A key \in DOMAIN demand_items_by_subject :
                 \A j \in 1..Len(demand_items_by_subject[key]) :
                     demand_items_by_subject'[key][j] # demand_items_by_subject[key][j] =>
                        \A i \in 1..(j - 1) :
                            demand_items_by_subject[key][i].remaining_hours = 0]_vars

\* a subject taught on two grades: its items hold a Current class of grade 6 before a
\* New class of grade 5, the New class has received hours and every Current class of
\* the subject is covered
C23_Witness ==
    /\ pc \in {"project", "done"}
    /\ \E key \in DOMAIN demand_items_by_subject :
          LET items == demand_items_by_subject[key]
          IN \E i, j \in 1..Len(items) :
                /\ i < j
                /\ items[i].class_status = "Current"
                /\ items[i].grade_label = "6"
                /\ items[j].class_status = "New"
                /\ items[j].grade_label = "5"
                /\ ItemHasHours(items[j])
                /\ items[i].remaining_hours = 0

\* the cut of the gap rows (688)
GapRowLimit == 8

\* C24: the subject rows are ordered by remaining hours descending, then subject name
\* ascending; the gap rows are the first subject rows with remaining_hours > 0 in that
\* order, at most 8 of them; the chart percentage of a gap row is remaining_hours over
\* the largest remaining hours of all gapped subjects, times 100, to the nearest tenth;
\* the first gap row has 100 and every percentage is within 0..100
C24_GapRowsLeadTheSubjectRows ==
    ContextBuilt =>
        LET rows == reporting_context.subject_rows
            gaps == reporting_context.gap_rows
            gapped == {i \in 1..Len(rows) : rows[i].remaining_hours > 0}
        IN /\ \A i, j \in 1..Len(rows) :
                 i < j =>
                    \/ rows[i].remaining_hours > rows[j].remaining_hours
                    \/ /\ rows[i].remaining_hours = rows[j].remaining_hours
                       /\ StrRank(rows[i].subject_name) < StrRank(rows[j].subject_name)
           /\ Len(gaps) = Min(Cardinality(gapped), GapRowLimit)
           /\ gapped = 1..Cardinality(gapped)
           /\ \A i \in 1..Len(gaps) :
                 LET largest == rows[1].remaining_hours
                 IN /\ gaps[i].row = rows[i]
                    /\ \A j \in gapped : rows[j].remaining_hours <= largest
                    /\ gaps[i].gap_chart_pct \in 0..1000
                    /\ 2 * (gaps[i].gap_chart_pct * largest
                              - gaps[i].row.remaining_hours * 1000) <= largest
                    /\ 2 * (gaps[i].row.remaining_hours * 1000
                              - gaps[i].gap_chart_pct * largest) <= largest
           /\ gaps # <<>> => gaps[1].gap_chart_pct = 1000

\* more than eight subjects lack hours, two of the first eight lack the same hours and
\* the ninth lacks hours too: the gap rows are the first eight
C24_Witness ==
    /\ ContextBuilt
    /\ Len(reporting_context.gap_rows) = GapRowLimit
    /\ Len(reporting_context.subject_rows) > GapRowLimit
    /\ reporting_context.subject_rows[GapRowLimit + 1].remaining_hours > 0
    /\ \E i \in 1..(GapRowLimit - 1) :
          reporting_context.subject_rows[i].remaining_hours
             = reporting_context.subject_rows[i + 1].remaining_hours
    /\ reporting_context.gap_rows[GapRowLimit].gap_chart_pct \in 1..999
    /\ \E i \in 1..Len(reporting_context.subject_rows) :
          reporting_context.subject_rows[i].allocated_hours > 0

\* the hours the assignment rows give to the teacher of an exported profile
ProjectedHoursOf(profile) ==
    LET rows == class_allocation_data.assignment_rows
    IN SumSeq([r \in 1..Len(rows) |->
                  IF rows[r].teacher_id = profile.teacher_id
                  THEN rows[r].allocated_hours ELSE 0])

UnassignedHours ==
    LET rows == class_allocation_data.unassigned_rows
    IN SumSeq([r \in 1..Len(rows) |-> rows[r].remaining_hours])

\* C25: in the result of the class mapping, for every teacher the allocated_hours of
\* the teacher's assignment rows sum to the allocated_hours the allocator gave the
\* teacher, and the remaining_hours of the unassigned rows sum to total_remaining_hours
\* of the summary, whatever section list the engine was given
C25_GrantedHoursReachClasses ==
    pc = "done" =>
        /\ \A i \in 1..Len(reporting_context.teacher_profiles) :
              ProjectedHoursOf(reporting_context.teacher_profiles[i])
                 = reporting_context.teacher_profiles[i].allocated_hours
        /\ UnassignedHours = reporting_context.summary.total_remaining_hours

\* a grade/section pair is listed twice or a section has no name, it counts in the
\* demand of its grade but is no class of its own: a teacher was allocated more hours
\* than the assignment rows give to classes
C25_Witness ==
    /\ pc = "done"
    /\ Len(class_allocation_data.class_rows) < Len(planning_sections)
    /\ \E i \in 1..Len(reporting_context.teacher_profiles) :
          /\ ProjectedHoursOf(reporting_context.teacher_profiles[i]) > 0
          /\ ProjectedHoursOf(reporting_context.teacher_profiles[i])
                < reporting_context.teacher_profiles[i].allocated_hours
    /\ UnassignedHours < reporting_context.summary.total_remaining_hours

\* the allocated_hours of all exported teacher profiles
ProfileHoursTotal ==
    SumSeq([i \in 1..Len(reporting_context.teacher_profiles) |->
               reporting_context.teacher_profiles[i].allocated_hours])

\* C26: in the reporting context the allocated_hours of all teacher profiles sum to
\* total_allocated_hours of the summary, which is total required minus total remaining
\* hours, and unused_existing_capacity_hours is 24 times the number of teachers minus
\* that sum
C26_HoursConservedAcrossViews ==
    ContextBuilt =>
        LET summary == reporting_context.summary
        IN /\ ProfileHoursTotal = summary.total_allocated_hours
           /\ summary.total_allocated_hours
                 = summary.total_required_hours - summary.total_remaining_hours
           /\ Len(reporting_context.teacher_profiles) = Len(teachers)
           /\ summary.unused_existing_capacity_hours
                 = REPORT_STANDARD_MAX_HOURS * Len(teachers) - ProfileHoursTotal

\* two teachers, one with a full load and one with hours and capacity left, and a
\* subject that still lacks hours
C26_Witness ==
    /\ ContextBuilt
    /\ Len(teachers) = 2
    /\ \E i, j \in 1..Len(reporting_context.teacher_profiles) :
          /\ reporting_context.teacher_profiles[i].allocated_hours
                = REPORT_STANDARD_MAX_HOURS
          /\ reporting_context.teacher_profiles[j].allocated_hours
                \in 1..(REPORT_STANDARD_MAX_HOURS - 1)
    /\ reporting_context.summary.total_remaining_hours > 0
    /\ reporting_context.summary.unused_existing_capacity_hours > 0

\* the subjects of the demand map that belong to a hiring pool
PooledSubjects == pooled_subject_keys

\* C27: total_additional_teachers_needed is the sum of additional_teachers_needed of
\* all subjects, while the resolver runs and in the summary and the subject rows of the
\* context; the teachers of a pooled component are counted once, on one subject of the
\* component, and the pass over the independent subjects leaves the pooled ones alone
C27_TotalIsSumOfSubjectRows ==
    /\ [](Started =>
             /\ DOMAIN subject_additional_teachers_map \subseteq SubjectKeys
             /\ total_additional_teachers_needed = SumValues(subject_additional_teachers_map)
             /\ \A key \in DOMAIN RuleSubjectGraph \cap visited_rule_subjects :
                   LET lacking == {k \in ComponentOf(key) : remaining_hours_by_subject[k] > 0}
                   IN lacking # {} =>
                         /\ lacking \subseteq PooledSubjects
                         /\ Cardinality(AnchorsOf(lacking)) = 1
                         /\ AdditionalTeachersOf(lacking)
                               = CeilDiv(RemainingOf(lacking), REPORT_STANDARD_MAX_HOURS))
    /\ [](ContextBuilt =>
             LET rows == reporting_context.subject_rows
             IN /\ reporting_context.summary.total_additional_teachers_needed
                      = SumSeq([r \in 1..Len(rows) |-> rows[r].additional_teachers_needed])
                /\ {rows[r].subject_key : r \in 1..Len(rows)} = SubjectKeys
                /\ Len(rows) = Cardinality(SubjectKeys))
    /\ [][(pc = "pool" /\ pc' = "report") =>
             \A key \in PooledSubjects :
                 subject_additional_teachers_map'[key] = subject_additional_teachers_map[key]]_vars

\* a pool of two subjects that both lack hours and an independent subject that lacks
\* hours: the total is the teachers of the pool, carried by one subject, plus those of
\* the independent subject
C27_Witness ==
    /\ ContextBuilt
    /\ Cardinality(PooledSubjects) = 2
    /\ AdditionalTeachersOf(PooledSubjects) >= 2
    /\ \E key \in SubjectKeys \ PooledSubjects :
          /\ Get(subject_additional_teachers_map, key) > 0
          /\ reporting_context.summary.total_additional_teachers_needed
                = AdditionalTeachersOf(PooledSubjects)
                     + Get(subject_additional_teachers_map, key)

\* the teachers the subjects would need if each were rounded up on its own
UnpooledTeachersNeeded ==
    SumSet([key \in SubjectKeys |->
               (remaining_hours_by_subject[key] + REPORT_STANDARD_MAX_HOURS - 1)
                  \div REPORT_STANDARD_MAX_HOURS],
           SubjectKeys)

\* C28: the recommended hires can teach all remaining hours, 24 *
\* total_additional_teachers_needed >= total_remaining_hours, and pooling never asks
\* for more teachers than rounding every subject up on its own
C28_HiresSufficeAndPoolingSaves ==
    /\ Resolved =>
          /\ REPORT_STANDARD_MAX_HOURS * total_additional_teachers_needed
                >= RemainingOf(SubjectKeys)
          /\ total_additional_teachers_needed <= UnpooledTeachersNeeded
    /\ ContextBuilt =>
          LET summary == reporting_context.summary
          IN /\ summary.total_remaining_hours = RemainingOf(SubjectKeys)
             /\ REPORT_STANDARD_MAX_HOURS * summary.total_additional_teachers_needed
                   >= summary.total_remaining_hours
             /\ summary.total_additional_teachers_needed <= UnpooledTeachersNeeded

\* two pooled subjects lack a few hours each: one teacher is recommended for both
\* where rounding each up on its own would ask for two
C28_Witness ==
    /\ ContextBuilt
    /\ Cardinality(pooled_subject_keys) = 2
    /\ reporting_context.summary.total_additional_teachers_needed > 0
    /\ reporting_context.summary.total_additional_teachers_needed < UnpooledTeachersNeeded
    /\ \E key \in SubjectKeys \ pooled_subject_keys : remaining_hours_by_subject[key] > 0

\* C29: in the reporting context every subject row has required_hours =
\* required_current_hours + required_new_hours, and every grade row has
\* required_hours_total = required_hours_current + required_hours_new and
\* sections_total = sections_current + sections_new, whatever the status of the sections
C29_TotalIsCurrentPlusNew ==
    ContextBuilt =>
        /\ \A r \in 1..Len(reporting_context.subject_rows) :
              LET row == reporting_context.subject_rows[r]
              IN row.required_hours = row.required_current_hours + row.required_new_hours
        /\ \A g \in 1..Len(reporting_context.grade_rows) :
              LET row == reporting_context.grade_rows[g]
              IN /\ row.required_hours_total
                       = row.required_hours_current + row.required_hours_new
                 /\ row.sections_total = row.sections_current + row.sections_new

\* a section of status Planned beside a Current one: the grade row counts two sections,
\* one of them Current and none New, and a subject row requires twice the hours of its
\* Current sections
C29_Witness ==
    /\ ContextBuilt
    /\ \E s \in 1..Len(planning_sections) :
          StripLower(planning_sections[s].class_status) = "planned"
    /\ \E g \in 1..Len(reporting_context.grade_rows) :
          LET row == reporting_context.grade_rows[g]
          IN /\ row.sections_total = 2
             /\ row.sections_current = 1
             /\ row.sections_new = 0
             /\ row.required_hours_total = 2 * row.required_hours_current
    /\ \E r \in 1..Len(reporting_context.subject_rows) :
          LET row == reporting_context.subject_rows[r]
          IN /\ row.required_current_hours > 0
             /\ row.required_new_hours = 0
             /\ row.required_hours = 2 * row.required_current_hours

\* a second run has decided its allocation and its additional teachers
SecondRunResolved == earlier_run.ran /\ Resolved

\* C30: the allocation does not depend on the order of the input lists: a run on the
\* same subjects, sections and teachers listed in another order gives every teacher the
\* same allocation breakdown and every subject the same remaining hours and the same
\* number of additional teachers
C30_OrderOfInputsIrrelevant ==
    SecondRunResolved => Outcome = earlier_run.outcome

\* what holds of the code: the outcome is the same when the subject list is in the
\* same order, however the teachers and the sections are listed
OrderOfTeachersAndSectionsIrrelevant ==
    (SecondRunResolved /\ subjects = earlier_run.subjects) =>
        Outcome = earlier_run.outcome

\* and the order of the subject list matters only through the names it gives the
\* subject identities: runs with the same demand map have the same outcome
OrderOfSubjectsMattersByNameOnly ==
    (SecondRunResolved /\ subject_demand_map = earlier_run.subject_demand_map) =>
        Outcome = earlier_run.outcome

\* the two records of science change places in the subject list, the teachers and the
\* sections stay as listed: a teacher linked to science and to sport had sport as the
\* primary subject and has science now, and the remaining hours of both changed
C30_Witness ==
    /\ SecondRunResolved
    /\ teachers = earlier_run.teachers
    /\ planning_sections = earlier_run.planning_sections
    /\ subjects # earlier_run.subjects
    /\ \E i \in 1..Len(teacher_profiles) :
          /\ teacher_profiles[i].subject_keys = <<"science">>
          /\ "science" \in DOMAIN teacher_profiles[i].allocation_breakdown
          /\ \E pair \in earlier_run.outcome.breakdowns :
                /\ pair[1] = teacher_profiles[i].teacher.id
                /\ "sport" \in DOMAIN pair[2]
                /\ "science" \notin DOMAIN pair[2]
    /\ remaining_hours_by_subject["science"] < earlier_run.outcome.remaining["science"]
    /\ remaining_hours_by_subject["sport"] > earlier_run.outcome.remaining["sport"]

====
